---- MODULE Spec2Model ----
(***************************************************************************)
(* Verification model of the Semantic Flow Language plugin for Node-RED:   *)
(*   - the AI prompt sidebar (ai-prompt-sidebar.js): request life cycle    *)
(*     and the smart merge of an AI-proposed node list into the live graph *)
(*   - the node tooltip plugin (node-tooltip.js): resynchronisation of a   *)
(*     node with the AI service, with429Retry and the sync status dot      *)
(*   - the server entry point (index.js) and the provider connectors:      *)
(*     the /ai/* HTTP handlers and the connector calls they make           *)
(* Each part has its own specification (SpecMerge, SpecRetry, SpecSync,    *)
(* SpecHttp); the variables of the other parts stay at their initial value.*)
(***************************************************************************)
EXTENDS Integers, Sequences, FiniteSets, Bags, TLC

\* ------------------------------------------------------------------------
\* Bounds of the model
\* ------------------------------------------------------------------------
MaxNodes == 3
MaxEdits == 2

NodeIds == 1..MaxNodes

\* JavaScript "undefined" for an optional field: None; a present value: Some(v)
None == {}
Some(v) == {v}
IsSome(o) == o # {}
Get(o) == CHOOSE v \in o : TRUE

VARIABLES
  nodes,        \* RED.nodes: node id -> [type, z, name, x, y, wires]
  links,        \* RED.nodes links: set of <<source id, sourcePort, target id>>
  tabs,         \* workspace tabs: tab id -> label
  activeTab,    \* RED.workspaces.active()
  btnDisabled,  \* 'disabled' property of the Build Flow button
  req,          \* the build-flow request: not issued yet, in flight, or handled
  last,         \* what the handled response did (history, for the properties)
  edits         \* number of user edits of the graph so far

mergeVars == <<nodes, links, tabs, activeTab, btnDisabled, req, last, edits>>

\* the editor's semantic sync (resources/node-tooltip.js)
VARIABLES
  node,                  \* synced node id -> [info, name, cfg]: its text, name and logic
  status,                \* node id -> colour of its port circle: idle, syncing, waiting
  rendered,              \* the node ids whose element is in the page
  semanticNodeRegistry,  \* window.semanticNodeRegistry: node id -> last synced text
  nodeFunctionalState,   \* window.nodeFunctionalState: node id -> stored logic
  ops,                   \* the running resyncNodeWithAI calls: a bag of [node, dir, pc, attempt, calls, waitMs]
  left,                  \* how many more calls the run may start
  httpClient,            \* window.axios is there
  gone,                  \* the node ids removed from the graph
  budget                 \* rate-limit answers the server has left to give

syncVars == <<node, status, rendered, semanticNodeRegistry, nodeFunctionalState, ops, left, httpClient, gone, budget>>

\* the server (index.js) and its provider connector
VARIABLES
  connector,   \* the connector module loaded at start-up, or "none" when loading failed
  aiConfig,    \* the configuration fields that are set (connector.getConfig())
  hreq,        \* the HTTP request being served: [route, body]
  hpc,         \* its handler: idle, awaiting the connector, done
  responses,   \* the responses sent for it, in order
  conn         \* the connector call made for it: the promise and the provider's answer

httpVars == <<connector, aiConfig, hreq, hpc, responses, conn>>

\* the helper call under study: the function, its arguments and what it returned
VARIABLE util
\* config-loader's module state, for one key K: envLoaded, redSettings, and what
\* process.env holds for K
VARIABLE loader
\* index.js's package descriptions: packageInfoCache, the /ai/custom-nodes request
\* being served with its lookups in flight, and customNodes
VARIABLE packages
utilVars == <<util, loader, packages>>

vars == <<mergeVars, syncVars, httpVars, utilVars>>

\* ------------------------------------------------------------------------
\* The live graph and the host editor's mutation primitives
\* ------------------------------------------------------------------------
InitTabs == {1, 2}
\* RED.nodes.id() for the tab of the create path: an identifier not in use
NewTabId == 3
TabIds == InitTabs \cup {NewTabId}

Graph(ns, ls) == [nodes |-> ns, links |-> ls]

\* a node the user drops on the canvas
UserNode(tab) ==
  [type |-> "function", z |-> tab, name |-> "orig", x |-> Some("p0"), y |-> Some("p0"),
   wires |-> None]

\* RED.nodes.eachNode(node => node.z === targetTab)
ExistingNodes(g, tab) == {n \in DOMAIN g.nodes : g.nodes[n].z = tab}

Ids(P) == {P[i].id : i \in 1..Len(P)}
Distinct(P) == \A i, j \in 1..Len(P) : P[i].id = P[j].id => i = j
\* the last entry of P with identifier n (Map.set keeps the last one)
Entry(P, n) == P[CHOOSE i \in 1..Len(P) : P[i].id = n /\ \A j \in 1..Len(P) : P[j].id = n => j <= i]
\* the first entry of P with identifier n
FirstEntry(P, n) == P[CHOOSE i \in 1..Len(P) : P[i].id = n /\ \A j \in 1..Len(P) : P[j].id = n => i <= j]

\* the links a wires list stands for: one per port and target that exists
WireLinks(ns, id, wires) ==
  {<<id, p - 1, t>> : <<p, t>> \in {pt \in (DOMAIN wires) \X DOMAIN ns : pt[2] \in wires[pt[1]]}}

\* RED.nodes.import(list) refuses a list naming an identifier the graph already has
ImportConflict(g, P) == \E i \in 1..Len(P) : P[i].id \in DOMAIN g.nodes

\* RED.nodes.import(list): the nodes are added under their own identifiers (of two
\* entries with one identifier the first is kept) and their wires become links
HostImport(g, P, tab) ==
  LET ids == Ids(P)
      made(n) == LET e == FirstEntry(P, n)
                 IN [type |-> e.type, z |-> tab, name |-> e.name, x |-> e.x, y |-> e.y,
                     wires |-> e.wires]
      ns == [n \in DOMAIN g.nodes \cup ids |-> IF n \in ids THEN made(n) ELSE g.nodes[n]]
      auto == UNION {IF IsSome(ns[n].wires) THEN WireLinks(ns, n, Get(ns[n].wires)) ELSE {} : n \in ids}
  IN Graph(ns, g.links \cup auto)

\* RED.nodes.remove(id): the node goes, and every link from it or to it
HostRemove(g, id) ==
  Graph([n \in DOMAIN g.nodes \ {id} |-> g.nodes[n]],
        {l \in g.links : l[1] # id /\ l[3] # id})

\* ------------------------------------------------------------------------
\* handlePromptSubmit: the smart merge
\* ------------------------------------------------------------------------
NodesToUpdate(P, existing) == SelectSeq(P, LAMBDA e : e.id \in existing)
NodesToAdd(P, existing) == SelectSeq(P, LAMBDA e : e.id \notin existing)

\* remove every link leaving the node, store the proposed wires, and add one link
\* per proposed connection whose target exists
RebuildWires(g, id, wires) ==
  Graph([g.nodes EXCEPT ![id].wires = Some(wires)],
        {l \in g.links : l[1] # id} \cup WireLinks(g.nodes, id, wires))

RECURSIVE WireAdditions(_, _)
WireAdditions(g, adds) ==
  IF adds = <<>> THEN g
  ELSE LET e == Head(adds)
       IN WireAdditions(IF e.id \in DOMAIN g.nodes /\ IsSome(e.wires)
                        THEN RebuildWires(g, e.id, Get(e.wires)) ELSE g,
                        Tail(adds))

\* an update that copies the coordinates whether the proposal has them or not
UpdateOneAllCoordinates(g, e) ==
  LET upd == [g.nodes[e.id] EXCEPT !.name = e.name, !.x = e.x, !.y = e.y]
      g1 == Graph([g.nodes EXCEPT ![e.id] = upd], g.links)
  IN IF IsSome(e.wires) THEN RebuildWires(g1, e.id, Get(e.wires)) ELSE g1

\* one existing node updated from its proposal
UpdateOne(g, e) ==
  LET old == g.nodes[e.id]
      upd == [old EXCEPT !.name = e.name,
                         !.x = IF IsSome(e.x) THEN e.x ELSE old.x,
                         !.y = IF IsSome(e.y) THEN e.y ELSE old.y]
      g1 == Graph([g.nodes EXCEPT ![e.id] = upd], g.links)
  IN IF IsSome(e.wires) THEN RebuildWires(g1, e.id, Get(e.wires)) ELSE g1

RECURSIVE UpdatePhase(_, _)
UpdatePhase(g, upds) ==
  IF upds = <<>> THEN g ELSE UpdatePhase(UpdateOne(g, Head(upds)), Tail(upds))

RECURSIVE RemoveAll(_, _)
RemoveAll(g, S) ==
  IF S = {} THEN g
  ELSE LET n == CHOOSE m \in S : TRUE IN RemoveAll(HostRemove(g, n), S \ {n})

\* a removal pass with the membership test the wrong way round
OrphansInverted(existing, P) == {n \in existing : n \in Ids(P)}

\* the nodes of the tab that the proposal does not name
Orphans(existing, P) == {n \in existing : n \notin Ids(P)}

RemovePhase(g, existing, P) == RemoveAll(g, Orphans(existing, P))

\* the merge branch: [ok |-> the import did not throw, g |-> the graph afterwards]
Merge(g, tab, P) ==
  LET existing == ExistingNodes(g, tab)
      adds == NodesToAdd(P, existing)
      upds == NodesToUpdate(P, existing)
  IN IF adds # <<>> /\ ImportConflict(g, adds)
     THEN [ok |-> FALSE, g |-> g]
     ELSE LET g1 == IF adds # <<>> THEN WireAdditions(HostImport(g, adds, tab), adds) ELSE g
              g2 == UpdatePhase(g1, upds)
          IN [ok |-> TRUE, g |-> RemovePhase(g2, existing, P)]

\* ------------------------------------------------------------------------
\* The sidebar: prompt, button, requests and responses
\* ------------------------------------------------------------------------
\* The text of the textarea, as the sequence of its maximal runs of word characters
\* ([A-Za-z0-9_]) and of the runs of other characters between them.
Prompts ==
  {<<>>, <<" ">>,
   <<"create", " ", "flow">>, <<"Build", " ", "flow">>, <<"add", " ", "node">>,
   <<"create", " ", "and", " ", "add">>, <<"tidy", " ", "up">>, <<"created", " ", "flow">>}
\* promptArea.val().trim() is not empty
HasContent(p) == \E i \in 1..Len(p) : p[i] # " "
\* the i flag: letters compare without case
Lower(w) == CASE w = "Build" -> "build" [] OTHER -> w
\* \b(v1|v2|...)\b matches where a whole run of word characters is one of the verbs
TestWholeWord(verbs, p) == \E i \in 1..Len(p) : Lower(p[i]) \in verbs
\* /\b(create|build|make|generate|new)\b/i.test(prompt)
CreateIntent(p) == TestWholeWord({"create", "build", "make", "generate", "new"}, p)
\* /\b(add|update|modify|change|append|insert)\b/i.test(prompt)
UpdateIntent(p) == TestWholeWord({"add", "update", "modify", "change", "append", "insert"}, p)
\* a rule that looks at the create verbs alone
ShouldCreateNewTabOnCreateVerb(p) == CreateIntent(p)

ShouldCreateNewTab(p) == CreateIntent(p) /\ ~UpdateIntent(p)

\* the node lists the AI service may answer with
RECURSIVE SortedSeq(_)
SortedSeq(S) ==
  IF S = {} THEN <<>>
  ELSE LET m == CHOOSE k \in S : \A j \in S : k <= j IN <<m>> \o SortedSeq(S \ {m})

PNode(id, name, x, y, wires) ==
  [id |-> id, type |-> "debug", name |-> name, x |-> x, y |-> y, wires |-> wires]

\* which coordinates a proposal carries: none, x alone, y alone, both
CoordPats == {<<None, None>>, <<Some("p1"), None>>, <<None, Some("p1")>>, <<Some("p1"), Some("p1")>>}
\* the wires a proposal declares: none, no connection, the first output to t, the
\* second output to node 1
WirePats == {None, Some(<<{}>>), Some(<<{}, {1}>>)} \cup {Some(<<{t}>>) : t \in NodeIds}

Uniform(S, c, w) == LET q == SortedSeq(S) IN [i \in 1..Len(q) |-> PNode(q[i], "ai", c[1], c[2], w)]
\* a list naming its first identifier twice, the second time under another name
WithDuplicate(S) == LET q == Uniform(S, <<None, None>>, None) IN Append(q, PNode(q[1].id, "ai2", None, None, None))

Proposals ==
  {Uniform(S, c, None) : S \in SUBSET NodeIds, c \in CoordPats}
  \cup {Uniform(S, <<None, None>>, w) : S \in SUBSET NodeIds, w \in WirePats}
  \cup {WithDuplicate({n}) : n \in NodeIds}

FlowNames == {"", "Hello Logger"}

NoReq == [st |-> "none", create |-> FALSE, tab |-> 0, ctx |-> {}, sent |-> FALSE]
NoLast == [kind |-> "none", P |-> <<>>, tab |-> 0, preIds |-> {}, req |-> NoReq]

Live == Graph(nodes, links)

InitMerge ==
  /\ nodes = <<>>
  /\ links = {}
  /\ tabs = [t \in InitTabs |-> "Flow"]
  /\ activeTab = 1
  /\ btnDisabled = TRUE
  /\ req = NoReq
  /\ last = NoLast
  /\ edits = 0

\* The model follows the editor through one build-flow round trip: the run is over
\* once the response has been handled.
Running == req.st # "done"

\* promptArea.on('input') with content p, and the Clear button (content ""): the
\* button follows the textarea's content. The textarea belongs to the page: its
\* content is an input of the handlers that read it.
UserInput(p) ==
  /\ UNCHANGED <<syncVars, httpVars, utilVars>>
  /\ Running
  /\ btnDisabled' = ~HasContent(p)
  /\ btnDisabled' # btnDisabled
  /\ UNCHANGED <<nodes, links, tabs, activeTab, req, last, edits>>

\* the user drops a node on the active tab; the editor gives it a fresh id, and the
\* model names the ids in the order of their creation
UserAddNode(n) ==
  /\ UNCHANGED <<syncVars, httpVars, utilVars>>
  /\ Running
  /\ edits < MaxEdits
  /\ n \notin DOMAIN nodes
  /\ \A m \in NodeIds : m < n => m \in DOMAIN nodes
  /\ nodes' = [m \in DOMAIN nodes \cup {n} |-> IF m = n THEN UserNode(activeTab) ELSE nodes[m]]
  /\ edits' = edits + 1
  /\ UNCHANGED <<links, tabs, activeTab, btnDisabled, req, last>>

\* the user draws a wire from the first output of s to t
UserAddLink(s, t) ==
  /\ UNCHANGED <<syncVars, httpVars, utilVars>>
  /\ Running
  /\ edits < MaxEdits
  /\ s \in DOMAIN nodes /\ t \in DOMAIN nodes
  /\ nodes[s].z = nodes[t].z
  /\ <<s, 0, t>> \notin links
  /\ links' = links \cup {<<s, 0, t>>}
  /\ edits' = edits + 1
  /\ UNCHANGED <<nodes, tabs, activeTab, btnDisabled, req, last>>

\* the user shows another tab
UserSwitchTab(t) ==
  /\ UNCHANGED <<syncVars, httpVars, utilVars>>
  /\ Running
  /\ t \in DOMAIN tabs /\ t # activeTab
  /\ activeTab' = t
  /\ UNCHANGED <<nodes, links, tabs, btnDisabled, req, last, edits>>

\* RED.nodes.createCompleteNodeSet(): an entry for every tab and for every node
CompleteNodeSet(g, tabIds) ==
  {[id |-> t, type |-> "tab", z |-> 0] : t \in tabIds}
  \cup {[id |-> n, type |-> g.nodes[n].type, z |-> g.nodes[n].z] : n \in DOMAIN g.nodes}

\* a context of every node of the editor, whatever its tab
ContextNodesOfAllTabs(g, tabIds, tab) ==
  {e.id : e \in {n \in CompleteNodeSet(g, tabIds) : n.type # "tab" /\ n.type # "subflow"}}

\* currentTabNodes: the entries that are no tab, no subflow, and lie on the tab
ContextNodes(g, tabIds, tab) ==
  {e.id : e \in {n \in CompleteNodeSet(g, tabIds) :
                   n.type # "tab" /\ n.type # "subflow" /\ n.z = tab}}

\* a click on Build Flow with prompt p in the textarea: handlePromptSubmit up to the
\* POST /ai/build-flow; axios tells whether the page has loaded the HTTP client
ClickSubmit(p, axios) ==
  /\ UNCHANGED <<syncVars, httpVars, utilVars>>
  /\ ~btnDisabled
  /\ req.st = "none"
  /\ IF ~HasContent(p)
     THEN UNCHANGED <<btnDisabled, req>>
     ELSE /\ btnDisabled' = TRUE
          /\ IF ~axios
             THEN UNCHANGED req
             ELSE LET ctx == ContextNodes(Live, DOMAIN tabs, activeTab)
                      create == ShouldCreateNewTab(p)
                  IN req' = [st |-> "inflight", create |-> create, tab |-> activeTab,
                             ctx |-> ctx, sent |-> (ctx # {} /\ ~create)]
  /\ UNCHANGED <<nodes, links, tabs, activeTab, last, edits>>

\* .finally(): the button follows the textarea's content (hasContent) again
Finally(hasContent) ==
  /\ req' = [req EXCEPT !.st = "done"]
  /\ btnDisabled' = ~hasContent
  /\ UNCHANGED edits

MkLast(kind, P, tab) ==
  [kind |-> kind, P |-> P, tab |-> tab, preIds |-> ExistingNodes(Live, tab), req |-> req]

\* the request failed, or its result has success = false: .catch()
RespondFailure(hasContent) ==
  /\ UNCHANGED <<syncVars, httpVars, utilVars>>
  /\ req.st = "inflight"
  /\ last' = MkLast("failed", <<>>, activeTab)
  /\ Finally(hasContent)
  /\ UNCHANGED <<nodes, links, tabs, activeTab>>

\* the create path: a new tab, and the tab and the nodes imported together
CreatePath(P, fn) ==
  IF ImportConflict(Live, P)
  THEN /\ last' = MkLast("aborted", P, NewTabId)
       /\ UNCHANGED <<nodes, links, tabs, activeTab>>
  ELSE LET g == HostImport(Live, P, NewTabId) IN
       /\ nodes' = g.nodes
       /\ links' = g.links
       /\ tabs' = [t \in DOMAIN tabs \cup {NewTabId} |->
                     IF t = NewTabId THEN (IF fn # "" THEN fn ELSE "AI Flow") ELSE tabs[t]]
       /\ activeTab' = NewTabId
       /\ last' = MkLast("created", P, NewTabId)

\* the merge path, into the tab that is active now
MergePath(P) ==
  LET m == Merge(Live, activeTab, P) IN
  /\ nodes' = m.g.nodes
  /\ links' = m.g.links
  /\ last' = MkLast(IF m.ok THEN "merged" ELSE "aborted", P, activeTab)
  /\ UNCHANGED <<tabs, activeTab>>

\* a handler that takes every successful result for a flow to import
HasFlowAlways(P) == TRUE

\* data.flow && data.flow.length > 0; the empty list stands for a flow that is
\* empty and for one that is missing
HasFlow(P) == P # <<>>

\* a successful result with node list P and flow name fn: .then()
RespondSuccess(P, fn, hasContent) ==
  /\ UNCHANGED <<syncVars, httpVars, utilVars>>
  /\ req.st = "inflight"
  /\ Finally(hasContent)
  /\ IF ~HasFlow(P)
     THEN /\ last' = MkLast("empty", P, activeTab)
          /\ UNCHANGED <<nodes, links, tabs, activeTab>>
     ELSE IF req.create THEN CreatePath(P, fn) ELSE MergePath(P)

NextMerge ==
  \/ \E p \in Prompts : UserInput(p)
  \/ \E n \in NodeIds : UserAddNode(n)
  \/ \E s, t \in NodeIds : UserAddLink(s, t)
  \/ \E t \in TabIds : UserSwitchTab(t)
  \/ \E p \in Prompts, axios \in BOOLEAN : ClickSubmit(p, axios)
  \/ \E h \in BOOLEAN : RespondFailure(h)
  \/ \E P \in Proposals, h \in BOOLEAN :
       \E fn \in (IF req.create THEN FlowNames ELSE {""}) : RespondSuccess(P, fn, h)


\* ------------------------------------------------------------------------
\* Semantic sync of single nodes (resources/node-tooltip.js)

MaxSyncNodes == 2
MaxOps == 2
\* rate-limit answers the server gives in one run of SpecSync
Max429 == 2
\* while (attempt < 10)
MaxAttempts == 10

SyncNodes == 1..MaxSyncNodes
\* texts of a node: none, one the user types, one the provider writes
Texts == {"", "t1", "t2"}
UserTexts == {"", "t1"}
Cfgs == {"f0", "f1"}
\* retry-after in seconds, from the header or the body; None: absent or not a number
Hints == {None, Some(2)}

\* setNodeSyncStatus: true and false stand for 'syncing' and 'idle', and a status
\* without a style clears the colour of the port circle
ResolvedStatus(s) == CASE s = "true" -> "syncing" [] s = "false" -> "idle" [] OTHER -> s

\* a setter that never clears the colour
SetNodeSyncStatusNeverIdle(st, shown, n, s) ==
  IF n \notin shown \/ ResolvedStatus(s) \notin {"syncing", "waiting"} THEN st
  ELSE [st EXCEPT ![n] = ResolvedStatus(s)]

SetNodeSyncStatus(st, shown, n, s) ==
  IF n \notin shown THEN st
  ELSE [st EXCEPT ![n] = IF ResolvedStatus(s) \in {"syncing", "waiting"} THEN ResolvedStatus(s) ELSE "idle"]

ExtractFunctionalProperties(nd) == nd.cfg

FunctionalPropertiesChanged(S, n) ==
  IsSome(S.fs[n]) /\ ExtractFunctionalProperties(S.node[n]) # Get(S.fs[n])

\* a sync that does not store the fingerprint
StoreFunctionalStateNot(S, n) == S

StoreFunctionalState(S, n) == [S EXCEPT !.fs[n] = Some(ExtractFunctionalProperties(S.node[n]))]

RegisterNodeInRegistry(S, n) ==
  LET S1 == IF ~IsSome(S.fs[n]) THEN StoreFunctionalState(S, n) ELSE S
  IN IF S1.node[n].info # "" /\ ~IsSome(S1.reg[n])
     THEN [S1 EXCEPT !.reg[n] = Some(S1.node[n].info)]
     ELSE S1

\* updateNodeTooltip: without an element it only re-arms its timer
UpdateNodeTooltip(S, n) == IF n \in S.shown THEN RegisterNodeInRegistry(S, n) ELSE S

\* the bag b with one copy of op replaced by the records of S
Swap(b, op, S) == (b (-) SetToBag({op})) (+) SetToBag(S)

\* resyncNodeWithAI up to its first await: the status turns to syncing and with429Retry
\* invokes the request for the first time. S.over tells that the run has
\* started as many calls as the model follows.
ResyncNodeWithAI(S, n, dir) ==
  IF ~S.httpClient THEN S
  ELSE IF S.left = 0 THEN [S EXCEPT !.over = TRUE]
  ELSE [S EXCEPT !.status = SetNodeSyncStatus(@, S.shown, n, "true"),
                 !.left = @ - 1,
                 !.ops = @ (+) SetToBag({[pc |-> "call", node |-> n, dir |-> dir, attempt |-> 0,
                                          calls |-> 1, waitMs |-> 0, hint |-> None]})]

\* RED.events.on('nodes:change')
OnNodesChange(S, n) ==
  UpdateNodeTooltip(IF FunctionalPropertiesChanged(S, n)
                    THEN ResyncNodeWithAI(S, n, "logic-to-info")
                    ELSE S, n)

\* saveAndExitEditMode with the edited text newText; rawInfo is the text the tooltip
\* was built from
SaveAndExit(S, n, newText, rawInfo) ==
  IF newText = rawInfo THEN S
  ELSE LET infoChanged == ~IsSome(S.reg[n]) \/ Get(S.reg[n]) # newText
           S1 == OnNodesChange([S EXCEPT !.node[n].info = newText], n)
       IN IF infoChanged THEN ResyncNodeWithAI(S1, n, "info-to-logic") ELSE S1

\* a loop test that lets one more attempt through
LoopContinuesOnceMore(attempt) == attempt <= MaxAttempts

\* with429Retry: the loop test, and the wait after a rate-limit answer
LoopContinues(attempt) == attempt < MaxAttempts

WaitMs(h) == (IF IsSome(h) THEN Get(h) * 1000 ELSE 1000) + 1000

\* Object.assign(node, updatedNode)
Assign(nd, upd) == [f \in DOMAIN nd |-> IF f \in DOMAIN upd THEN upd[f] ELSE nd[f]]

\* bodies of /ai/resync-node answers and of /ai/generate-description answers
UpdatedNodes == {[cfg |-> "f1"], [cfg |-> "f0", info |-> "t2"]}
ResyncReplies ==
  {[success |-> TRUE, updatedNode |-> Some(u)] : u \in UpdatedNodes}
  \cup {[success |-> TRUE, updatedNode |-> None], [success |-> FALSE, updatedNode |-> None]}
DescReplies ==
  {[success |-> TRUE, name |-> "n2", description |-> t] : t \in {"", "t2"}}
  \cup {[success |-> TRUE, name |-> "", description |-> "t2"],
        [success |-> FALSE, name |-> "", description |-> ""]}

\* a resync that records the text as synced before it looks at the answer
ApplyResyncRecordsFirst(S, n, d) ==
  LET S0 == [S EXCEPT !.reg[n] = Some("t2")]
  IN IF d.success /\ IsSome(d.updatedNode)
     THEN LET S1 == [S0 EXCEPT !.node[n] = Assign(@, Get(d.updatedNode))]
          IN [ok |-> TRUE, S |-> StoreFunctionalState([S1 EXCEPT !.reg[n] = Some(S1.node[n].info)], n)]
     ELSE [ok |-> FALSE, S |-> S0]

\* the part of resyncNodeWithAI after the awaited answer d, up to its finally
ApplyResync(S, n, d) ==
  IF d.success /\ IsSome(d.updatedNode)
  THEN LET S1 == [S EXCEPT !.node[n] = Assign(@, Get(d.updatedNode))]
       IN [ok |-> TRUE, S |-> StoreFunctionalState([S1 EXCEPT !.reg[n] = Some(S1.node[n].info)], n)]
  ELSE [ok |-> FALSE, S |-> S]

ApplyDescription(S, n, d) ==
  IF ~d.success \/ d.name = "" \/ d.description = ""
  THEN [ok |-> FALSE, S |-> S]
  ELSE LET S1 == [S EXCEPT !.node[n].name = d.name, !.node[n].info = d.description]
           S2 == StoreFunctionalState([S1 EXCEPT !.reg[n] = Some(d.description)], n)
       IN [ok |-> TRUE, S |-> OnNodesChange(S2, n)]


SyncState ==
  [node |-> node, status |-> status, reg |-> semanticNodeRegistry, fs |-> nodeFunctionalState,
   ops |-> ops, left |-> left, shown |-> rendered, httpClient |-> httpClient, over |-> FALSE]

Install(S) ==
  /\ ~S.over
  /\ node' = S.node
  /\ status' = S.status
  /\ semanticNodeRegistry' = S.reg
  /\ nodeFunctionalState' = S.fs
  /\ ops' = S.ops
  /\ left' = S.left

\* a node as the editor holds it before any sync: no text yet
FreshNode == [info |-> "", name |-> "n1", cfg |-> "f0"]

\* The editor after initializeTooltips: every rendered node has been registered, the
\* others have not been seen. k operations can start in the run and the server
\* answers 429 at most b times.
InitSyncWith(k, b) ==
  /\ rendered \in SUBSET SyncNodes
  /\ node = [n \in SyncNodes |-> FreshNode]
  /\ status = [n \in SyncNodes |-> "idle"]
  /\ semanticNodeRegistry = [n \in SyncNodes |->
        IF n \in rendered /\ node[n].info # "" THEN Some(node[n].info) ELSE None]
  /\ nodeFunctionalState = [n \in SyncNodes |->
        IF n \in rendered THEN Some(ExtractFunctionalProperties(node[n])) ELSE None]
  /\ ops = EmptyBag
  /\ left = k
  /\ httpClient \in BOOLEAN
  /\ gone = {}
  /\ budget = b

Running429 == BagToSet(ops)

\* a settled with429Retry whose caller has not resumed yet runs before any other event
NoPendingJob == \A op \in Running429 : op.pc # "rejecting"

\* the user edits the logic of node n in the editor, which emits nodes:change
UserEditLogic(n, c) ==
  /\ NoPendingJob
  /\ n \notin gone
  /\ c # node[n].cfg
  /\ Install(OnNodesChange([SyncState EXCEPT !.node[n].cfg = c], n))
  /\ UNCHANGED <<rendered, httpClient, gone, budget, mergeVars, httpVars, utilVars>>

\* the user edits the text in the tooltip of node n and saves it
UserSaveInfo(n, newText) ==
  /\ NoPendingJob
  /\ n \in rendered
  /\ newText # node[n].info
  /\ Install(SaveAndExit(SyncState, n, newText, node[n].info))
  /\ UNCHANGED <<rendered, httpClient, gone, budget, mergeVars, httpVars, utilVars>>

\* a controller that takes every failure for a rate limit
CatchRetriesAll(op, is429, h) ==
  [ops |-> {[op EXCEPT !.attempt = @ + 1, !.waitMs = WaitMs(h), !.hint = h, !.pc = "wait"]},
   status |-> "waiting"]

\* the catch of with429Retry: a 429 starts a wait under the status 'waiting', any
\* other failure is thrown on, to the catch and the finally of resyncNodeWithAI; the
\* records the call leaves and the status it sets
Catch(op, is429, h) ==
  IF is429
  THEN [ops |-> {[op EXCEPT !.attempt = @ + 1, !.waitMs = WaitMs(h), !.hint = h, !.pc = "wait"]},
        status |-> "waiting"]
  ELSE [ops |-> {}, status |-> "false"]

\* the request of the call op is answered 429 with hint h: with429Retry starts a wait
Reply429(op, h) ==
  /\ NoPendingJob
  /\ op.pc = "call"
  /\ budget > 0
  /\ budget' = budget - 1
  /\ ops' = Swap(ops, op, Catch(op, TRUE, h).ops)
  /\ status' = SetNodeSyncStatus(status, rendered, op.node, Catch(op, TRUE, h).status)
  /\ UNCHANGED <<node, rendered, semanticNodeRegistry, nodeFunctionalState, left, httpClient, gone, mergeVars, httpVars, utilVars>>

\* the wait of the call op is over: back to syncing, then the loop test
TimerFires(op) ==
  /\ NoPendingJob
  /\ op.pc = "wait"
  /\ status' = SetNodeSyncStatus(status, rendered, op.node, "true")
  /\ ops' = Swap(ops, op, {IF LoopContinues(op.attempt)
                           THEN [op EXCEPT !.pc = "call", !.calls = @ + 1, !.waitMs = 0, !.hint = None]
                           ELSE [op EXCEPT !.pc = "rejecting", !.waitMs = 0, !.hint = None]})
  /\ UNCHANGED <<node, rendered, semanticNodeRegistry, nodeFunctionalState, left, httpClient, gone, budget, mergeVars, httpVars, utilVars>>

\* resyncNodeWithAI resumes on 'Maximum retry attempts reached': catch and finally
SettleExhausted(op) ==
  /\ op.pc = "rejecting"
  /\ ops' = Swap(ops, op, {})
  /\ status' = SetNodeSyncStatus(status, rendered, op.node, "false")
  /\ UNCHANGED <<node, rendered, semanticNodeRegistry, nodeFunctionalState, left, httpClient, gone, budget, mergeVars, httpVars, utilVars>>

\* the request of the call op fails with something else than a 429: rethrown at once,
\* then catch and finally
ReplyError(op) ==
  /\ NoPendingJob
  /\ op.pc = "call"
  /\ ops' = Swap(ops, op, Catch(op, FALSE, None).ops)
  /\ status' = SetNodeSyncStatus(status, rendered, op.node, Catch(op, FALSE, None).status)
  /\ UNCHANGED <<node, rendered, semanticNodeRegistry, nodeFunctionalState, left, httpClient, gone, budget, mergeVars, httpVars, utilVars>>

\* the request of the call op is answered 200 with body d
ReplyData(op, d) ==
  /\ NoPendingJob
  /\ op.pc = "call"
  /\ LET r == IF op.dir = "info-to-logic" THEN ApplyResync(SyncState, op.node, d)
              ELSE ApplyDescription(SyncState, op.node, d)
     IN Install([r.S EXCEPT !.ops = Swap(@, op, {}),
                            !.status = SetNodeSyncStatus(@, rendered, op.node, "false")])
  /\ UNCHANGED <<rendered, httpClient, gone, budget, mergeVars, httpVars, utilVars>>

\* the events of a run in which no call runs out of attempts
NextSync ==
  \/ \E n \in SyncNodes, c \in Cfgs : UserEditLogic(n, c)
  \/ \E n \in SyncNodes, t \in UserTexts : UserSaveInfo(n, t)
  \/ \E op \in Running429, h \in Hints : Reply429(op, h)
  \/ \E op \in Running429 : TimerFires(op)
  \/ \E op \in Running429 : ReplyError(op)
  \/ \E op \in Running429 :
       \E d \in (IF op.dir = "info-to-logic" THEN ResyncReplies ELSE DescReplies) : ReplyData(op, d)

\* node n is removed from the graph (RED.nodes.remove, as the merge does with an
\* orphan): its element leaves the page; nothing in node-tooltip.js listens to it
RemoveNode(n) ==
  /\ NoPendingJob
  /\ n \notin gone
  /\ gone' = gone \cup {n}
  /\ rendered' = rendered \ {n}
  /\ UNCHANGED <<node, status, semanticNodeRegistry, nodeFunctionalState, ops, left, httpClient,
                 budget, mergeVars, httpVars, utilVars>>

NextLifecycle == NextSync \/ \E n \in SyncNodes : RemoveNode(n)

NextRetry ==
  \/ NextSync
  \/ \E op \in Running429 : SettleExhausted(op)

\* ------------------------------------------------------------------------
\* The server: HTTP handlers (index.js) and the provider connectors

Providers == {"azure-openai", "openai", "anthropic", "google"}
Routes == {"/ai/build-flow", "/ai/resync-node", "/ai/generate-description"}
ConfigFields == {"endpoint", "apiKey", "deploymentName"}

\* validateConfig: the fields a provider requires
Required(p) == IF p = "azure-openai" THEN {"endpoint", "apiKey", "deploymentName"} ELSE {"apiKey"}

\* const required = [...], in its order
RequiredOrder(p) ==
  IF p = "azure-openai" THEN <<"endpoint", "apiKey", "deploymentName">> ELSE <<"apiKey">>

\* a filter that stops at the first field it finds missing
FirstMissingField(p, config) ==
  LET all == SelectSeq(RequiredOrder(p), LAMBDA f : f \notin config)
  IN IF all = <<>> THEN <<>> ELSE <<Head(all)>>

\* required.filter(field => !config[field]); config is the set of the fields that
\* hold a truthy value
MissingFields(p, config) == SelectSeq(RequiredOrder(p), LAMBDA f : f \notin config)

\* validateConfig: one message that lists the missing fields
ValidateConfig(p, config) ==
  LET missing == MissingFields(p, config)
  IN IF Len(missing) > 0
     THEN [valid |-> FALSE, errors |-> <<[text |-> "Missing required fields", fields |-> missing]>>]
     ELSE [valid |-> TRUE, errors |-> <<>>]

\* a string field of a request body: absent, '', only whitespace, or text
FieldVals == {"missing", "empty", "blank", "text"}
\* JavaScript's !v and v.trim() on these
Not(v) == v \in {"missing", "empty"}
Trim(v) == IF v = "blank" THEN "empty" ELSE v

NoBody == [prompt |-> "missing", nodeId |-> "missing", info |-> "missing", currentConfig |-> "missing"]
Bodies(rt) ==
  CASE rt = "/ai/build-flow" -> {[NoBody EXCEPT !.prompt = v] : v \in FieldVals}
    [] rt = "/ai/resync-node" ->
         {[NoBody EXCEPT !.nodeId = v, !.info = w, !.currentConfig = c] :
            v \in FieldVals, w \in FieldVals, c \in {"missing", "object"}}
    [] OTHER -> {[NoBody EXCEPT !.nodeId = v, !.currentConfig = c] :
                   v \in FieldVals, c \in {"missing", "object"}}

\* the check at the head of each handler
BodyRejected(rt, b) ==
  CASE rt = "/ai/build-flow" -> Not(b.prompt) \/ Not(Trim(b.prompt))
    [] rt = "/ai/resync-node" -> Not(b.nodeId) \/ Not(b.info) \/ Not(Trim(b.info))
    [] OTHER -> Not(b.nodeId) \/ Not(b.currentConfig)

RequiredMessage(rt) ==
  CASE rt = "/ai/build-flow" -> "Prompt is required"
    [] rt = "/ai/resync-node" -> "Node ID and info are required"
    [] OTHER -> "Node ID and config are required"

OperationOf(rt) ==
  CASE rt = "/ai/build-flow" -> "generateFlow"
    [] rt = "/ai/resync-node" -> "resyncNode"
    [] OTHER -> "generateDescription"

\* let output = {...} at the head of each handler
InitialOutput(rt) ==
  CASE rt = "/ai/build-flow" -> [success |-> FALSE, flow |-> "none", error |-> ""]
    [] rt = "/ai/resync-node" -> [success |-> FALSE, updatedNode |-> "none", error |-> ""]
    [] OTHER -> [success |-> FALSE, description |-> "", error |-> ""]

\* the output object at the head of each connector operation
ConnectorOutput(op) ==
  CASE op = "generateFlow" -> [success |-> FALSE, flow |-> "none", error |-> "", metadata |-> "none"]
    [] op = "resyncNode" -> [success |-> FALSE, updatedNode |-> "none", error |-> ""]
    [] OTHER -> [success |-> FALSE, name |-> "", description |-> "", error |-> ""]

\* Where a connector operation faults while it builds its prompt: resyncNode of the
\* Google and Anthropic connectors names prompt templates their modules do not
\* declare, before the try block; generateDescription of the Google connector does
\* the same inside it.
BuildFault(p, op) ==
  CASE p \in {"google", "anthropic"} /\ op = "resyncNode" -> "before try"
    [] p = "google" /\ op = "generateDescription" -> "in try"
    [] OTHER -> "none"

\* what the provider may answer to the one request a connector operation sends
ProviderReplies(op) == {"ok", "http429", "http500", "network", "empty", "badjson"}

\* the object a description reply parses to: its name and its description
NoParsed == [name |-> "missing", description |-> "missing"]
ParsedDescriptions == [name : FieldVals, description : FieldVals]
\* the text of a field after trim()
Trimmed(v) == IF v = "text" THEN "text" ELSE ""

\* generateDescription on a reply that parsed
DescriptionResult(parsed) ==
  IF Not(parsed.description) \/ Not(parsed.name)
  THEN [ConnectorOutput("generateDescription") EXCEPT !.error = "AI response missing name or description"]
  ELSE [ConnectorOutput("generateDescription") EXCEPT
          !.success = TRUE, !.name = Trimmed(parsed.name), !.description = Trimmed(parsed.description)]

\* the result a connector operation resolves to on the provider's answer r
ConnectorResult(op, r, parsed) ==
  CASE r = "ok" /\ op = "generateDescription" -> DescriptionResult(parsed)
    [] r = "ok" -> [ConnectorOutput(op) EXCEPT !.success = TRUE]
    [] r = "http429" -> [ConnectorOutput(op) EXCEPT !.error = "HTTP 429"]
    [] r = "http500" -> [ConnectorOutput(op) EXCEPT !.error = "HTTP 500"]
    [] r = "network" -> [ConnectorOutput(op) EXCEPT !.error = "No response from server - check network connection"]
    [] r = "empty" -> [ConnectorOutput(op) EXCEPT !.error = "No content in response"]
    [] OTHER -> [ConnectorOutput(op) EXCEPT !.error = "AI returned invalid JSON"]

NoConn == [st |-> "none", op |-> "", calls |-> 0, reply |-> "", parsed |-> NoParsed,
           result |-> [success |-> FALSE, error |-> ""]]
NoHreq == [route |-> "", body |-> NoBody]

Response(code, body) == [status |-> code, body |-> body]

\* a handler that swallows the fault and sends nothing
CatchSilent(out, msg) == <<>>

\* the catch block of each handler
CatchRespond(out, msg) ==
  <<Response(500, [out EXCEPT !.error = IF msg # "" THEN msg ELSE "Internal server error"])>>

InitHttp ==
  /\ connector \in Providers \cup {"none"}
  /\ aiConfig \in SUBSET ConfigFields
  /\ hreq = NoHreq
  /\ hpc = "idle"
  /\ responses = <<>>
  /\ conn = NoConn

\* a request arrives: the handler runs up to its response or up to the provider call
\* its connector operation awaits
Receive(rt, b) ==
  /\ hpc \in {"idle", "done"}
  /\ hreq' = [route |-> rt, body |-> b]
  /\ LET out == InitialOutput(rt)
         op == OperationOf(rt)
     IN IF BodyRejected(rt, b)
        THEN /\ responses' = <<Response(400, [out EXCEPT !.error = RequiredMessage(rt)])>>
             /\ conn' = NoConn /\ hpc' = "done"
        ELSE IF connector = "none"
        THEN /\ responses' = CatchRespond(out, "Cannot read properties of undefined")
             /\ conn' = NoConn /\ hpc' = "done"
        ELSE IF ~ValidateConfig(connector, aiConfig).valid
        THEN /\ responses' = <<Response(500, [out EXCEPT !.error = "AI not configured"])>>
             /\ conn' = NoConn /\ hpc' = "done"
        ELSE IF rt = "/ai/resync-node" /\ b.currentConfig = "missing"
        THEN /\ responses' = CatchRespond(out, "Cannot set properties of undefined")
             /\ conn' = NoConn /\ hpc' = "done"
        ELSE IF BuildFault(connector, op) = "before try"
        THEN /\ conn' = [NoConn EXCEPT !.st = "rejected", !.op = op]
             /\ responses' = CatchRespond(out, "is not defined")
             /\ hpc' = "done"
        ELSE IF BuildFault(connector, op) = "in try"
        THEN /\ conn' = [NoConn EXCEPT !.st = "resolved", !.op = op,
                                       !.result = [ConnectorOutput(op) EXCEPT !.error = "is not defined"]]
             /\ responses' = <<Response(200, conn'.result)>>
             /\ hpc' = "done"
        ELSE /\ conn' = [NoConn EXCEPT !.st = "pending", !.op = op, !.calls = 1]
             /\ responses' = <<>>
             /\ hpc' = "awaiting"
  /\ UNCHANGED <<connector, aiConfig, mergeVars, syncVars, utilVars>>

\* the provider answers r (a description reply with JSON content parses to parsed):
\* the connector operation resolves and the handler sends its result
ProviderAnswers(r, parsed) ==
  /\ hpc = "awaiting"
  /\ conn' = [conn EXCEPT !.st = "resolved", !.reply = r, !.parsed = parsed,
                          !.result = ConnectorResult(conn.op, r, parsed)]
  /\ responses' = Append(responses, Response(200, conn'.result))
  /\ hpc' = "done"
  /\ UNCHANGED <<connector, aiConfig, hreq, mergeVars, syncVars, utilVars>>

NextHttp ==
  \/ \E rt \in Routes : \E b \in Bodies(rt) : Receive(rt, b)
  \/ \E r \in ProviderReplies(conn.op) :
       \E parsed \in (IF conn.op = "generateDescription" /\ r = "ok"
                      THEN ParsedDescriptions ELSE {NoParsed}) : ProviderAnswers(r, parsed)

\* no HTTP activity
HttpQuiet ==
  /\ connector = "none" /\ aiConfig = {} /\ hreq = NoHreq
  /\ hpc = "idle" /\ responses = <<>> /\ conn = NoConn

\* no sync activity: the state of the sync part in the runs of the other parts
SyncQuiet ==
  /\ rendered = {}
  /\ node = [n \in SyncNodes |-> FreshNode]
  /\ status = [n \in SyncNodes |-> "idle"]
  /\ semanticNodeRegistry = [n \in SyncNodes |-> None]
  /\ nodeFunctionalState = [n \in SyncNodes |-> None]
  /\ ops = EmptyBag
  /\ left = 0
  /\ httpClient = FALSE
  /\ gone = {}
  /\ budget = 0

\* no build-flow activity
MergeQuiet ==
  /\ nodes = <<>> /\ links = {} /\ tabs = [t \in InitTabs |-> "Flow"] /\ activeTab = 1
  /\ btnDisabled = TRUE /\ req = NoReq /\ last = NoLast /\ edits = 0

\* ------------------------------------------------------------------------
\* Helpers of the connectors and the configuration lookup
\* ------------------------------------------------------------------------
MaxCtx == 3

NoCall == [fn |-> "none"]
\* config-loader as the module is when it has just been required
FreshLoader(raw, packaged) ==
  [envLoaded |-> FALSE, redSettings |-> None, raw |-> raw, packaged |-> packaged, env |-> raw]
\* the package names of custom nodes
Pkgs == {"p", "q"}
MaxRequests == 3

\* nothing cached, nothing asked
NoPackages ==
  [cache |-> [x \in Pkgs |-> "absent"], st |-> "idle", flights |-> {},
   descs |-> [x \in Pkgs |-> "unset"], customNodes |-> [x \in Pkgs |-> "unset"],
   answered |-> {}, requests |-> 0, response |-> "none"]
UtilQuiet ==
  util = NoCall /\ loader = FreshLoader("missing", "missing") /\ packages = NoPackages

\* A node of the flow context: its identifier and the length of its JSON text,
\* indentation included.
CtxNode(id) == [id |-> id, chars |-> 10 + 15 * id]
CtxLists ==
  {q \in UNION {[1..k -> 1..MaxCtx] : k \in 0..MaxCtx} : \A i, j \in DOMAIN q : q[i] = q[j] => i = j}
Budgets == {1, 30, 64, 100, 128, 18000}

RECURSIVE SumChars(_)
SumChars(q) == IF q = <<>> THEN 0 ELSE CtxNode(Head(q)).chars + SumChars(Tail(q))
\* JSON.stringify(nodes, null, 2).length: the brackets, and per node its text, a line
\* break and, but for the last, a comma
JsonLength(q) == IF q = <<>> THEN 2 ELSE SumChars(q) + 2 * Len(q) + 2
Digits(k) == IF k < 10 THEN 1 ELSE 2
\* the length of the notice for k of n nodes
NoticeLength(k, n) == 97 + Digits(k) + Digits(n)
Max(a, b) == IF a >= b THEN a ELSE b

\* nodes.slice(0, k)
Slice(q, k) == SubSeq(q, 1, IF k <= Len(q) THEN k ELSE Len(q))

\* a count that may be zero
KeepCountUnclamped(n, maxChars, full) == (n * maxChars) \div full

\* Math.max(1, Math.floor(nodes.length * ratio)) with ratio = maxChars / json.length;
\* on the numbers of this model the floating-point product has the same floor
KeepCount(n, maxChars, full) == Max(1, (n * maxChars) \div full)

\* ConnectorUtils.serializeFlowContext(nodes, maxFlowContextChars): the nodes whose
\* JSON is returned, the notice if there is one, and the length of the text
SerializeFlowContext(q, maxChars) ==
  LET full == JsonLength(q) IN
  IF full <= maxChars
  THEN [kept |-> q, notice |-> None, length |-> full]
  ELSE LET keepCount == KeepCount(Len(q), maxChars, full)
           trimmed == Slice(q, keepCount)
       IN [kept |-> trimmed, notice |-> Some([keep |-> keepCount, of |-> Len(q)]),
           length |-> JsonLength(trimmed) + NoticeLength(keepCount, Len(q))]

CallSerialize(q, maxChars) ==
  /\ util' = [fn |-> "serializeFlowContext", nodes |-> q, maxChars |-> maxChars,
              out |-> SerializeFlowContext(q, maxChars)]
  /\ UNCHANGED <<mergeVars, syncVars, httpVars, loader, packages>>

\* A limit as getEnv returns it: a string, '' when nothing is configured.
TokenSettings == {"", "100", "200"}
\* Number(v) of these
ToNumber(v) == CASE v = "100" -> 100 [] v = "200" -> 200 [] OTHER -> 0
\* a || b on strings
Or(a, b) == IF a # "" THEN a ELSE b
TokenConfigs == [maxCompletionTokens : TokenSettings, maxTokens : TokenSettings]

\* Model identifiers, in pieces: a.startsWith(b) is that b's pieces begin a's.
ModelIds ==
  {<<"gpt-", "4", ".1">>, <<"gpt-", "4", ".1", "-mini">>, <<"gpt-", "4", "o">>, <<"gpt-", "5">>,
   <<"gpt-", "4">>, <<"gpt-", "4", "-turbo">>, <<"gpt-", "3.5">>, <<"my-", "gpt-", "4", "o">>,
   <<"GPT-", "4", "o">>}
StartsWith(a, b) == Len(b) <= Len(a) /\ SubSeq(a, 1, Len(b)) = b
NEW_STYLE_PREFIXES == {<<"gpt-", "4", ".1">>, <<"gpt-", "4", "o">>, <<"gpt-", "5">>}

\* a test for the listed identifiers themselves
IsNewStyleExact(model) == model \in NEW_STYLE_PREFIXES

IsNewStyle(model) == \E prefix \in NEW_STYLE_PREFIXES : StartsWith(model, prefix)

\* OpenAIConnector.addTokens(config, body): the body afterwards
OpenAIAddTokens(config, body) ==
  LET maxTokenSetting == Or(config.maxCompletionTokens, config.maxTokens) IN
  IF maxTokenSetting = "" THEN body
  ELSE IF IsNewStyle(config.model)
       THEN [body EXCEPT !.max_completion_tokens = Some(ToNumber(maxTokenSetting))]
       ELSE [body EXCEPT !.max_tokens = Some(ToNumber(maxTokenSetting))]

\* the token fields of the body an OpenAI operation builds: none
OpenAIBody == [max_completion_tokens |-> None, max_tokens |-> None]

CallOpenAIAddTokens(model, tc) ==
  /\ LET config == [model |-> model, maxCompletionTokens |-> tc.maxCompletionTokens,
                    maxTokens |-> tc.maxTokens]
     IN util' = [fn |-> "openai.addTokens", config |-> config, body |-> OpenAIBody,
                 out |-> OpenAIAddTokens(config, OpenAIBody)]
  /\ UNCHANGED <<mergeVars, syncVars, httpVars, loader, packages>>

\* the caller's default of the Anthropic operations: 4000, 2000, 500, or none given
FallbackMaxes == {None, Some(500), Some(4000)}

\* a rule that asks the token limit first
AnthropicTokenSettingTokensFirst(config, fallbackMax) ==
  IF config.maxTokens # "" THEN Some(ToNumber(config.maxTokens))
  ELSE IF config.maxCompletionTokens # "" THEN Some(ToNumber(config.maxCompletionTokens))
  ELSE fallbackMax

\* config.maxCompletionTokens || config.maxTokens || fallbackMax, as a number
AnthropicTokenSetting(config, fallbackMax) ==
  IF Or(config.maxCompletionTokens, config.maxTokens) # ""
  THEN Some(ToNumber(Or(config.maxCompletionTokens, config.maxTokens)))
  ELSE fallbackMax

\* AnthropicConnector.addTokens(config, body, fallbackMax)
AnthropicAddTokens(config, body, fallbackMax) ==
  LET tokenSetting == AnthropicTokenSetting(config, fallbackMax)
  IN IF IsSome(tokenSetting) THEN [body EXCEPT !.max_tokens = tokenSetting] ELSE body

\* GoogleConnector.addTokens(config, generationConfig)
GoogleAddTokens(config, generationConfig) ==
  LET tokenSetting == Or(config.maxCompletionTokens, config.maxTokens)
  IN IF tokenSetting # "" THEN [generationConfig EXCEPT !.maxOutputTokens = Some(ToNumber(tokenSetting))]
     ELSE generationConfig

\* the bodies the operations build before they add the limit
PresetLimits == {Some(500), Some(2000), Some(4000)}

CallAnthropicAddTokens(tc, preset, fallbackMax) ==
  /\ util' = [fn |-> "anthropic.addTokens", config |-> tc, body |-> [max_tokens |-> preset],
              fallbackMax |-> fallbackMax,
              out |-> AnthropicAddTokens(tc, [max_tokens |-> preset], fallbackMax)]
  /\ UNCHANGED <<mergeVars, syncVars, httpVars, loader, packages>>

CallGoogleAddTokens(tc, preset) ==
  /\ util' = [fn |-> "google.addTokens", config |-> tc, body |-> [maxOutputTokens |-> preset],
              out |-> GoogleAddTokens(tc, [maxOutputTokens |-> preset])]
  /\ UNCHANGED <<mergeVars, syncVars, httpVars, loader, packages>>

\* a configuration object: per field undefined, '', blanks or text
ConfigObjects == [ConfigFields -> FieldVals]
TruthyFields(config) == {f \in DOMAIN config : ~Not(config[f])}

\* validateConfig(config) of the connector of provider p; after is the object once
\* the call has returned
CallValidateConfig(p, config) ==
  /\ util' = [fn |-> "validateConfig", provider |-> p, config |-> config, after |-> config,
              out |-> ValidateConfig(p, TruthyFields(config))]
  /\ UNCHANGED <<mergeVars, syncVars, httpVars, loader, packages>>

\* config-loader. What one key holds in each source: "missing" is undefined, "empty"
\* is ''. redSettings is null, an object with a get function, or a plain object; top
\* is its value for the key, aiPrompts the key's value in its aiPrompts object;
\* packaged is the key's value in ai-prompts.json, raw the environment variable.
SettingsKinds == {"null", "get", "plain"}
Lookups ==
  {c \in [kind : SettingsKinds, top : {"missing", "empty", "from-settings"},
          aiPrompts : {"missing", "from-aiPrompts"}, packaged : {"missing", "from-package"},
          raw : {"missing", "empty", "from-env"}, fallback : {"empty", "from-fallback"}] :
     c.kind = "null" => (c.top = "missing" /\ c.aiPrompts = "missing")}
Falsy(v) == v \in {"missing", "empty"}

\* getSettings(key)
GetSettings(c) == IF c.kind = "null" THEN "missing" ELSE c.top

\* loadEnv: process.env[key] after { ...process.env, ...prompts, ...settingsPrompts }
LoadEnv(c) ==
  IF c.aiPrompts # "missing" THEN c.aiPrompts
  ELSE IF c.packaged # "missing" THEN c.packaged
  ELSE c.raw

\* getEnv(key, fallback): getSettings(key) || process.env[key] || fallback
GetEnv(c) ==
  IF ~Falsy(GetSettings(c)) THEN GetSettings(c)
  ELSE IF ~Falsy(LoadEnv(c)) THEN LoadEnv(c)
  ELSE c.fallback

\* setSettings, if the plugin has settings, then the first getEnv for the key
CallGetEnv(c) ==
  /\ util' = [fn |-> "getEnv", in |-> c, out |-> GetEnv(c)]
  /\ UNCHANGED <<mergeVars, syncVars, httpVars, loader, packages>>

\* The settings objects handed to setSettings: the top-level value of K and the
\* value of K in aiPrompts.
SettingsObjects ==
  [top : {"missing", "from-settings"}, aiPrompts : {"missing", "from-aiPrompts", "from-aiPrompts-2"}]

\* the sources of K as a lookup sees them in the state L of the module
LookupIn(L, fallback) ==
  IF IsSome(L.redSettings)
  THEN [kind |-> "plain", top |-> Get(L.redSettings).top, aiPrompts |-> Get(L.redSettings).aiPrompts,
        packaged |-> L.packaged, raw |-> L.raw, fallback |-> fallback]
  ELSE [kind |-> "null", top |-> "missing", aiPrompts |-> "missing",
        packaged |-> L.packaged, raw |-> L.raw, fallback |-> fallback]

\* loadEnv(): the overlay happens once, at the first lookup
LoadEnvOnce(L) ==
  IF L.envLoaded THEN L
  ELSE [L EXCEPT !.envLoaded = TRUE, !.env = LoadEnv(LookupIn(L, "empty"))]

\* module.exports.setSettings
SetSettings(S) ==
  /\ loader' = [loader EXCEPT !.redSettings = Some(S)]
  /\ loader' # loader
  /\ UNCHANGED <<util, packages, mergeVars, syncVars, httpVars>>

\* getEnv(key, fallback) in the module's present state; key is K or another key,
\* whose lookup is not followed further than its loadEnv()
GetEnvNow(key, fallback) ==
  LET L == LoadEnvOnce(loader)
      c == LookupIn(L, fallback)
      out == IF ~Falsy(GetSettings(c)) THEN GetSettings(c)
             ELSE IF ~Falsy(L.env) THEN L.env
             ELSE fallback
  IN /\ loader' = L
     /\ util' = [fn |-> "getEnvNow", key |-> key, settings |-> L.redSettings,
                 out |-> IF key = "K" THEN out ELSE "other"]
     /\ UNCHANGED <<packages, mergeVars, syncVars, httpVars>>

NextLoader ==
  \/ \E S \in SettingsObjects : SetSettings(S)
  \/ \E key \in {"K", "other"}, fallback \in {"empty", "from-fallback"} : GetEnvNow(key, fallback)

InitLoader ==
  /\ util = NoCall
  /\ packages = NoPackages
  /\ loader \in {FreshLoader(raw, packaged) :
                   raw \in {"missing", "from-env"}, packaged \in {"missing", "from-package"}}
  /\ MergeQuiet /\ SyncQuiet /\ HttpQuiet

\* setSettings and getEnv calls in any order
SpecLoader == InitLoader /\ [][NextLoader]_vars

\* Promise.all has settled every packageInfo of the request: the nodes are stored
\* and the request is answered
Complete(P) ==
  IF P.flights = {}
  THEN [P EXCEPT !.st = "idle", !.customNodes = P.descs, !.response = "200"]
  ELSE P

\* POST /ai/custom-nodes with nodes of the packages in names (or a body whose nodes is
\* no array): packageInfo starts for each, a registry lookup where the cache has no
\* truthy description
PostCustomNodes(isArray, names) ==
  /\ packages.st = "idle"
  /\ packages.requests < MaxRequests
  /\ IF ~isArray
     THEN packages' = [packages EXCEPT !.requests = @ + 1, !.response = "400"]
     ELSE LET miss == {n \in names : packages.cache[n] # "text"}
          IN packages' =
               Complete([packages EXCEPT
                           !.requests = @ + 1, !.st = "awaiting", !.response = "none",
                           !.flights = {[name |-> n, stage |-> "registry"] : n \in miss},
                           !.descs = [x \in Pkgs |-> IF x \in names \ miss
                                                     THEN packages.cache[x] ELSE "unset"]])
  /\ UNCHANGED <<util, loader, mergeVars, syncVars, httpVars>>

\* the registry, or the mirror after it, answers lookup f with a package whose
\* description is desc: the cache is written from `description`, still '' at that
\* point, and desc is returned
LookupAnswers(f, desc) ==
  /\ f \in packages.flights
  /\ packages' =
       Complete([packages EXCEPT
                   !.cache[f.name] = "",
                   !.descs[f.name] = desc,
                   !.answered = IF desc = "text" THEN @ \cup {f.name} ELSE @,
                   !.flights = @ \ {f}])
  /\ UNCHANGED <<util, loader, mergeVars, syncVars, httpVars>>

\* lookup f fails: the registry's failure leads to the mirror, the mirror's to ''
LookupFails(f) ==
  /\ f \in packages.flights
  /\ IF f.stage = "registry"
     THEN packages' = [packages EXCEPT
                         !.flights = (@ \ {f}) \cup {[name |-> f.name, stage |-> "unpkg"]}]
     ELSE packages' =
            Complete([packages EXCEPT
                        !.cache[f.name] = "", !.descs[f.name] = "", !.flights = @ \ {f}])
  /\ UNCHANGED <<util, loader, mergeVars, syncVars, httpVars>>

NextPackages ==
  \/ \E isArray \in BOOLEAN, names \in SUBSET Pkgs : PostCustomNodes(isArray, names)
  \/ \E f \in packages.flights : \E desc \in {"", "text"} : LookupAnswers(f, desc)
  \/ \E f \in packages.flights : LookupFails(f)

\* the plugin has started: the cache holds what PACKAGE_INFO_CACHE listed
InitPackages ==
  /\ util = NoCall
  /\ loader = FreshLoader("missing", "missing")
  /\ packages \in {[NoPackages EXCEPT !.cache = c] : c \in [Pkgs -> {"absent", "text"}]}
  /\ MergeQuiet /\ SyncQuiet /\ HttpQuiet

\* /ai/custom-nodes requests and the answers to their lookups
SpecPackages == InitPackages /\ [][NextPackages]_vars

\* A model's reply as pieces: "fence" is a run of three backticks, then the word json, a line
\* break, a complete JSON document (backticks occur in one only inside strings, which
\* hold no line break), and text that is no JSON.
MaxReply == 6
ReplyTokens == {"fence", "json", "\n", "J", "x"}
Replies == UNION {[1..n -> ReplyTokens] : n \in 0..MaxReply}
\* the length in characters of the text that is no JSON
TextLengths == {5, 250}
PreviewChars == 200

TokenChars(t, xLen) ==
  CASE t = "fence" -> 3 [] t = "json" -> 4 [] t = "\n" -> 1 [] t = "J" -> 2 [] OTHER -> xLen

RECURSIVE Chars(_, _, _, _)
\* the number of characters of pieces a..b of c
Chars(c, a, b, xLen) ==
  IF a > b THEN 0 ELSE TokenChars(c[a], xLen) + Chars(c, a + 1, b, xLen)

MinOf(S) == CHOOSE x \in S : \A y \in S : x <= y
MaxOf(S) == CHOOSE x \in S : \A y \in S : x >= y

\* String.prototype.trim on pieces a..b of c: the range without the white space
\* at its ends
TrimRange(c, a, b) ==
  LET inside == {i \in a..b : c[i] # "\n"}
  IN IF inside = {} THEN [from |-> a, to |-> a - 1]
     ELSE [from |-> MinOf(inside), to |-> MaxOf(inside)]

\* a parser that takes no fence off
CodeBlockMatchNever(c, a, b) == [matched |-> FALSE, from |-> a, to |-> b]

\* cleanContent.match(/^```(?:json)?\s*\n?([\s\S]*?)\n?```$/m) on pieces a..b: the
\* opening run starts a line, the closing run is the first one after it that ends a
\* line, and the group is what lies between (white space at its ends is trimmed
\* by the caller)
CodeBlockMatch(c, a, b) ==
  LET AfterOpen(i) == IF i + 1 <= b /\ c[i + 1] = "json" THEN i + 2 ELSE i + 1
      Closers(i) == {j \in AfterOpen(i)..b : c[j] = "fence" /\ (j = b \/ c[j + 1] = "\n")}
      starts == {i \in a..b : /\ c[i] = "fence"
                                /\ (i = a \/ c[i - 1] = "\n")
                                /\ Closers(i) # {}}
  IN IF starts = {} THEN [matched |-> FALSE, from |-> a, to |-> b]
     ELSE [matched |-> TRUE, from |-> AfterOpen(MinOf(starts)),
           to |-> MinOf(Closers(MinOf(starts))) - 1]

\* cleanContent: the reply trimmed, and the group of the match, trimmed, if there
\* is one
CleanContent(c) ==
  LET t == TrimRange(c, 1, Len(c))
      m == CodeBlockMatch(c, t.from, t.to)
  IN IF m.matched THEN TrimRange(c, m.from, m.to) ELSE t

\* JSON.parse of pieces: the document, or a SyntaxError
JsonParse(s) == IF s = <<"J">> THEN "J" ELSE "invalid"

\* from the reply's content to the parsed value or the parse error, in generateFlow
\* (the preview is cut from content) and in generateDescription (from cleanContent);
\* the preview is given by where it starts in content and how long it is
ParseReply(kind, c, xLen) ==
  LET r == CleanContent(c)
      v == JsonParse(SubSeq(c, r.from, r.to))
      shown == IF kind = "generateFlow" THEN [from |-> 1, to |-> Len(c)] ELSE r
      len == Chars(c, shown.from, shown.to, xLen)
  IN IF c = <<>>
     THEN [parsed |-> "none", error |-> "No content in response", previewStart |-> 0, previewLen |-> 0]
     ELSE IF v # "invalid"
     THEN [parsed |-> v, error |-> "", previewStart |-> 0, previewLen |-> 0]
     ELSE [parsed |-> "none", error |-> "AI returned invalid JSON",
           previewStart |-> Chars(c, 1, shown.from - 1, xLen),
           previewLen |-> IF len < PreviewChars THEN len ELSE PreviewChars]

\* the provider's reply arrives in generateFlow or generateDescription
ReplyParsed(kind) ==
  /\ util.fn = "reply"
  /\ util' = [fn |-> kind, content |-> util.content, xLen |-> util.xLen,
              total |-> Chars(util.content, 1, Len(util.content), util.xLen),
              out |-> ParseReply(kind, util.content, util.xLen)]
  /\ UNCHANGED <<mergeVars, syncVars, httpVars, loader, packages>>

NextParse == \E kind \in {"generateFlow", "generateDescription"} : ReplyParsed(kind)

InitParse ==
  /\ util \in {[fn |-> "reply", content |-> c, xLen |-> x] : c \in Replies, x \in TextLengths}
  /\ loader = FreshLoader("missing", "missing")
  /\ packages = NoPackages
  /\ MergeQuiet /\ SyncQuiet /\ HttpQuiet

\* replies of the provider, parsed by the connector
SpecParse == InitParse /\ [][NextParse]_vars

\* The smart merge, statement by statement. A run holds the graph so far and what
\* each loop has still to visit; done lists the visits made, in order.
\* The graphs a merge can find: nodes the user dropped on the first tab, or the
\* last one on the second, and at most one wire: drawn by the user between nodes of
\* one tab, or left by an earlier merge, whose addLink takes any target that exists.
MergeGraphs ==
  {Graph([n \in S |-> UserNode(IF other /\ n = MaxNodes THEN 2 ELSE 1)], L) :
     <<S, other, L>> \in {t \in (SUBSET NodeIds) \X BOOLEAN \X
                                   ({{}} \cup {{<<a, 0, b>>} : a \in NodeIds, b \in NodeIds}) :
                            \A l \in t[3] : l[1] \in t[1] /\ l[3] \in t[1]}}

\* the merge about to run on graph g with proposal P, the first tab being the target
MergeRun(g, P) ==
  [fn |-> "merge", g0 |-> g, g |-> g, P |-> P, imported |-> FALSE,
   adds |-> NodesToAdd(P, ExistingNodes(g, 1)), towire |-> NodesToAdd(P, ExistingNodes(g, 1)),
   upds |-> NodesToUpdate(P, ExistingNodes(g, 1)),
   orphans |-> Orphans(ExistingNodes(g, 1), P), done |-> <<>>]

\* a merge that updates before it adds
PhaseOfUpdateFirst(m) ==
  IF m.fn # "merge" THEN "none"
  ELSE IF m.upds # <<>> THEN "update"
  ELSE IF m.adds # <<>> /\ ~m.imported THEN "add"
  ELSE IF m.adds # <<>> /\ m.towire # <<>> THEN "wire"
  ELSE IF m.orphans # {} THEN "remove"
  ELSE "end"

\* the statement the merge is at: the import (FIRST), the loop fixing the wires of
\* the added nodes, the update loop (SECOND), the removal loop (THIRD)
PhaseOf(m) ==
  IF m.fn # "merge" THEN "none"
  ELSE IF m.adds # <<>> /\ ~m.imported THEN "add"
  ELSE IF m.adds # <<>> /\ m.towire # <<>> THEN "wire"
  ELSE IF m.upds # <<>> THEN "update"
  ELSE IF m.orphans # {} THEN "remove"
  ELSE "end"

Visit(phase, id) == [phase |-> phase, id |-> id]

\* RED.nodes.import(nodesToAdd): all the new nodes at once, or a throw that ends
\* the merge
StepAdd ==
  /\ PhaseOf(util) = "add"
  /\ util' = IF ImportConflict(util.g, util.adds)
             THEN [fn |-> "thrown", g0 |-> util.g0, g |-> util.g, P |-> util.P, done |-> util.done]
             ELSE [util EXCEPT !.g = HostImport(util.g, util.adds, 1), !.imported = TRUE,
                               !.done = Append(@, Visit("add", 0))]
  /\ UNCHANGED <<mergeVars, syncVars, httpVars, loader, packages>>

\* one turn of nodesToAdd.forEach: the wires of an added node
StepWire ==
  /\ PhaseOf(util) = "wire"
  /\ util' = [util EXCEPT !.g = WireAdditions(util.g, <<Head(util.towire)>>),
                          !.towire = Tail(@),
                          !.done = Append(@, Visit("wire", Head(util.towire).id))]
  /\ UNCHANGED <<mergeVars, syncVars, httpVars, loader, packages>>

\* one turn of nodesToUpdate.forEach
StepUpdate ==
  /\ PhaseOf(util) = "update"
  /\ util' = [util EXCEPT !.g = UpdateOne(util.g, Head(util.upds)),
                          !.upds = Tail(@),
                          !.done = Append(@, Visit("update", Head(util.upds).id))]
  /\ UNCHANGED <<mergeVars, syncVars, httpVars, loader, packages>>

\* one turn of existingNodes.forEach: an orphan is removed
StepRemove ==
  /\ PhaseOf(util) = "remove"
  /\ LET n == MinOf(util.orphans)
     IN util' = [util EXCEPT !.g = HostRemove(util.g, n),
                             !.orphans = @ \ {n},
                             !.done = Append(@, Visit("remove", n))]
  /\ UNCHANGED <<mergeVars, syncVars, httpVars, loader, packages>>

NextPhases == StepAdd \/ StepWire \/ StepUpdate \/ StepRemove

InitPhases ==
  /\ util \in {MergeRun(g, P) : g \in MergeGraphs, P \in {Q \in Proposals : HasFlow(Q)}}
  /\ loader = FreshLoader("missing", "missing")
  /\ packages = NoPackages
  /\ MergeQuiet /\ SyncQuiet /\ HttpQuiet

\* one smart merge, from its first statement to its last
SpecPhases == InitPhases /\ [][NextPhases]_vars

\* ------------------------------------------------------------------------
\* The success branch of an info-to-logic resync on the whole node object
\* (node-tooltip.js), with the keys of the node and of the two registries.

\* the node object being synced: its identifier is 1
NodeObjects ==
  {[id |-> 1, type |-> "function", z |-> 1, name |-> "n1", info |-> t, cfg |-> c] :
     t \in UserTexts, c \in Cfgs}

\* updatedNode is the object the provider's reply parses to: any keys, any values
PayloadKeys == {"id", "type", "z", "cfg", "info"}
Payloads ==
  {[f \in K |-> r[f]] :
     <<r, K>> \in [id : {1, 2}, type : {"function", "debug"}, z : {1, 2}, cfg : {"f1"}, info : {"t2"}]
                   \X SUBSET PayloadKeys}

\* Object.assign(target, source): every own key of source is written to target
ObjectAssign(obj, upd) ==
  [f \in DOMAIN obj \cup DOMAIN upd |-> IF f \in DOMAIN upd THEN upd[f] ELSE obj[f]]

\* the registries as registerNodeInRegistry leaves them for the object nd
KeyedRegistries(nd) ==
  [reg |-> [i \in {1, 2} |-> IF i = nd.id /\ nd.info # "" THEN Some(nd.info) ELSE None],
   fs |-> [i \in {1, 2} |-> IF i = nd.id THEN Some(ExtractFunctionalProperties(nd)) ELSE None]]

\* a result with success and updatedNode has arrived for the node object: the
\* assignment, then the two registry writes under node.id as it is then
ResyncInfoToLogic ==
  /\ util.fn = "resync-keys"
  /\ LET nd == ObjectAssign(util.node, util.updatedNode)
     IN util' = [util EXCEPT !.fn = "resynced-keys",
                             !.node = nd,
                             !.reg[nd.id] = Some(nd.info),
                             !.fs[nd.id] = Some(ExtractFunctionalProperties(nd))]
  /\ UNCHANGED <<mergeVars, syncVars, httpVars, loader, packages>>

InitKeys ==
  /\ util \in {[fn |-> "resync-keys", before |-> nd, node |-> nd, updatedNode |-> u,
                 reg |-> KeyedRegistries(nd).reg, fs |-> KeyedRegistries(nd).fs] :
                 nd \in NodeObjects, u \in Payloads}
  /\ loader = FreshLoader("missing", "missing")
  /\ packages = NoPackages
  /\ MergeQuiet /\ SyncQuiet /\ HttpQuiet

\* one successful info-to-logic answer applied to one node
SpecKeys == InitKeys /\ [][ResyncInfoToLogic]_vars

NextUtil ==
  \/ \E c \in Lookups : CallGetEnv(c)
  \/ \E p \in Providers, config \in ConfigObjects : CallValidateConfig(p, config)
  \/ \E q \in CtxLists, m \in Budgets : CallSerialize(q, m)
  \/ \E model \in ModelIds, tc \in TokenConfigs : CallOpenAIAddTokens(model, tc)
  \/ \E tc \in TokenConfigs, preset \in PresetLimits, fb \in FallbackMaxes :
       CallAnthropicAddTokens(tc, preset, fb)
  \/ \E tc \in TokenConfigs, preset \in PresetLimits : CallGoogleAddTokens(tc, preset)

InitUtil == UtilQuiet /\ MergeQuiet /\ SyncQuiet /\ HttpQuiet

\* calls of the helpers, on any arguments
SpecUtil == InitUtil /\ [][NextUtil]_vars

\* several resyncs and fewer rate-limit answers than one call can take
InitSync == InitSyncWith(MaxOps, Max429) /\ MergeQuiet /\ HttpQuiet /\ UtilQuiet

SpecSync == InitSync /\ [][NextSync]_vars

\* the same editor against a server that answers 429 once at most
InitSyncOnce == InitSyncWith(MaxOps, 1) /\ MergeQuiet /\ HttpQuiet /\ UtilQuiet

SpecSyncOnce == InitSyncOnce /\ [][NextSync]_vars

\* the sync of the nodes of a graph from which nodes are removed
InitLifecycle == InitSyncWith(1, 1) /\ MergeQuiet /\ HttpQuiet /\ UtilQuiet

SpecLifecycle == InitLifecycle /\ [][NextLifecycle]_vars

\* one resync against a server that may answer 429 every time
InitRetry == InitSyncWith(1, MaxAttempts + 1) /\ MergeQuiet /\ HttpQuiet /\ UtilQuiet

SpecRetry == InitRetry /\ [][NextRetry]_vars

\* an attempt that is in progress is answered
AttemptReturns ==
  \E op \in Running429 :
     \/ \E h \in Hints : Reply429(op, h)
     \/ ReplyError(op)
     \/ \E d \in (IF op.dir = "info-to-logic" THEN ResyncReplies ELSE DescReplies) : ReplyData(op, d)

\* The same resync where every request is answered, every timer set by setTimeout
\* fires, and a rejected promise resumes its awaiter.
SpecRetryFair ==
  /\ InitRetry /\ [][NextRetry]_vars
  /\ WF_vars(AttemptReturns)
  /\ WF_vars(\E op \in Running429 : TimerFires(op))
  /\ WF_vars(\E op \in Running429 : SettleExhausted(op))

\* requests to the server, one after the other
InitServer == InitHttp /\ MergeQuiet /\ SyncQuiet /\ UtilQuiet

SpecHttp == InitServer /\ [][NextHttp]_vars

\* one build-flow round trip in the editor
InitEditor == InitMerge /\ SyncQuiet /\ HttpQuiet /\ UtilQuiet

SpecMerge == InitEditor /\ [][NextMerge]_vars

\* ------------------------------------------------------------------------
\* Properties of the merge

C2_MergeIdempotent ==
  last.kind = "merged" => Merge(Live, last.tab, last.P).g = Live

\* C3: a node the user added to the target tab after the context snapshot, and that
\* the proposal does not name, is still in the graph after the merge.
C3_UserEditSurvives ==
  \A n \in NodeIds :
    (/\ last.kind = "merged"
     /\ last.req.tab = last.tab
     /\ n \in last.preIds \ last.req.ctx
     /\ n \notin Ids(last.P)) => n \in DOMAIN nodes

\* ------------------------------------------------------------------------
\* Properties of the semantic sync

\* C4: resyncs are serialized per node: while a resync of node n is running (its
\* request in flight or waiting after a 429), no second resync of n is running.
C4_ResyncSerialized ==
  \A o1 \in Running429 :
    /\ CopiesIn(o1, ops) = 1
    /\ \A o2 \in Running429 : o1 # o2 => o1.node # o2.node

\* C5: with429Retry invokes the request at most 10 times; it fails with 'Maximum retry
\* attempts reached' only after exactly 10 invocations that were all answered 429,
\* whatever the retry-after hints, and after the tenth 429 no request is in flight.
C5_RetryCeiling ==
  \A op \in Running429 :
    /\ op.calls <= MaxAttempts
    /\ op.pc = "rejecting" => (op.calls = MaxAttempts /\ op.attempt = MaxAttempts)
    /\ op.attempt = MaxAttempts => op.pc \in {"wait", "rejecting"}

\* a call has run out of attempts
C5_Witness == \E op \in Running429 : op.pc = "rejecting" /\ op.calls = MaxAttempts

\* C10: the status of a node changes only idle->syncing, syncing->idle,
\* syncing->waiting and waiting->syncing.
C10_StatusTransitions ==
  [][\A n \in SyncNodes :
       status'[n] # status[n] =>
         <<status[n], status'[n]>> \in {<<"idle", "syncing">>, <<"syncing", "idle">>,
                                        <<"syncing", "waiting">>, <<"waiting", "syncing">>}]_vars

\* ------------------------------------------------------------------------
\* Properties of the server

\* C6: a 429 from the provider is retried: the connector operation does not resolve
\* to a failed result on a 429 unless 10 attempts have been made.
C6_Provider429Retried ==
  (conn.st = "resolved" /\ conn.reply = "http429") =>
     (conn.result.success \/ conn.calls >= MaxAttempts)

\* C7: a connector operation never rejects, and every failure resolves to a result
\* with success = false and a non-empty error.
C7_ConnectorNeverRejects ==
  /\ conn.st # "rejected"
  /\ (conn.st = "resolved" /\ conn.reply # "ok") =>
       (~conn.result.success /\ conn.result.error # "")

\* C8: every request is answered exactly once, with a body that has a success flag
\* and an error field: a handler that is done has sent one response, a handler that
\* has not is waiting for its connector call, and no handler sends two.
C8_ExactlyOneResponse ==
  /\ Len(responses) <= 1
  /\ hpc = "done" => Len(responses) = 1
  /\ hpc = "awaiting" => conn.st = "pending"
  /\ \A i \in DOMAIN responses :
       /\ {"success", "error"} \subseteq DOMAIN responses[i].body
       /\ responses[i].body.success \in BOOLEAN

\* a request whose connector call rejected, answered by the catch block
C8_Witness ==
  /\ hpc = "done" /\ conn.st = "rejected"
  /\ Len(responses) = 1 /\ responses[1].status = 500 /\ ~responses[1].body.success

\* C9: validation gates the connector call: build-flow answers 400 on a missing or
\* blank prompt and 500 on an invalid configuration; resync-node answers 400 when
\* nodeId or info is missing or blank; generate-description answers 400 when nodeId
\* or currentConfig is missing; and in these cases the connector is not called.
C9_ValidationGates ==
  LET Blank(v) == v \in {"missing", "empty", "blank"}
      Answered(code) == hpc = "done" /\ Len(responses) = 1 /\ responses[1].status = code
  IN
  hpc # "idle" =>
    /\ (hreq.route = "/ai/build-flow" /\ Blank(hreq.body.prompt))
         => (Answered(400) /\ conn.st = "none")
    /\ (hreq.route = "/ai/build-flow" /\ ~Blank(hreq.body.prompt) /\ connector # "none"
          /\ ~ValidateConfig(connector, aiConfig).valid)
         => (Answered(500) /\ conn.st = "none")
    /\ (hreq.route = "/ai/resync-node" /\ (Blank(hreq.body.nodeId) \/ Blank(hreq.body.info)))
         => (Answered(400) /\ conn.st = "none")
    /\ (hreq.route = "/ai/generate-description"
          /\ (hreq.body.nodeId = "missing" \/ hreq.body.currentConfig = "missing"))
         => (Answered(400) /\ conn.st = "none")

\* ------------------------------------------------------------------------
\* The wait between two attempts
\* ------------------------------------------------------------------------
\* C11: after a rate-limit answer with retry-after hint h the call waits
\* (h ?? 0) * 1000 + 1000 milliseconds: h * 1000 + 1000 with a hint, 1000 without.
C11_WaitIsHintPlusOneSecond ==
  \A op \in Running429 :
     op.pc = "wait" =>
        op.waitMs = (IF IsSome(op.hint) THEN Get(op.hint) ELSE 0) * 1000 + 1000

\* ------------------------------------------------------------------------
\* The choice between a new tab and the merge
\* ------------------------------------------------------------------------
\* C12: a response with nodes goes the way of a new tab exactly when the prompt holds
\* a create verb as a whole word, in any case, and no update verb; with both kinds of
\* verb, or with none, the nodes are merged into the tab that is active. The first
\* conjunct is about the step that submits a prompt p, the second about the step
\* that handles the response of that request.
C12_CreateIffCreateVerbAlone ==
  [][/\ \A p \in Prompts, axios \in BOOLEAN :
          (ClickSubmit(p, axios) /\ req'.st = "inflight") =>
             LET folded == {IF p[i] = "Build" THEN "build" ELSE p[i] : i \in 1..Len(p)}
                 hasCreate == folded \cap {"create", "build", "make", "generate", "new"} # {}
                 hasUpdate == folded \cap {"add", "update", "modify", "change", "append", "insert"} # {}
             IN req'.create <=> (hasCreate /\ ~hasUpdate)
     /\ (req.st = "inflight" /\ last'.kind \in {"created", "merged", "aborted"}) =>
          /\ (last'.tab = NewTabId) <=> req.create
          /\ (last'.tab # NewTabId) => (last'.tab = activeTab /\ activeTab' = activeTab)
    ]_vars

\* both paths are taken: here the new tab
C12_Witness ==
  /\ last.kind = "created"
  /\ last.req.create

\* ------------------------------------------------------------------------
\* The new tab
\* ------------------------------------------------------------------------
\* C13: on the way of a new tab, a successful response with nodes P and flow name fn
\* makes exactly one new tab, labelled fn or 'AI Flow', holding every node of P under
\* the new tab's identifier; no node and no link that existed before is added to,
\* changed or removed.
C13_CreateMakesOneTab ==
  [][\A P \in Proposals, fn \in FlowNames, h \in BOOLEAN :
        (RespondSuccess(P, fn, h) /\ req.create /\ P # <<>>) =>
           /\ NewTabId \notin DOMAIN tabs
           /\ DOMAIN tabs' = DOMAIN tabs \cup {NewTabId}
           /\ tabs'[NewTabId] = (IF fn = "" THEN "AI Flow" ELSE fn)
           /\ \A t \in DOMAIN tabs : tabs'[t] = tabs[t]
           /\ DOMAIN nodes' = DOMAIN nodes \cup Ids(P)
           /\ \A n \in Ids(P) : nodes'[n].z = NewTabId
           /\ \A n \in DOMAIN nodes : nodes'[n] = nodes[n]
           /\ links \subseteq links'
           /\ \A l \in links' \ links : l[1] \in Ids(P)
    ]_vars

\* ------------------------------------------------------------------------
\* Descriptions
\* ------------------------------------------------------------------------
\* C14: generateDescription succeeds only when the reply's name and description are
\* both there and not empty once trimmed, and fails with 'missing name or description'
\* otherwise: a successful result has a name and a description.
C14_DescriptionNeedsNameAndText ==
  (conn.st = "resolved" /\ conn.op = "generateDescription" /\ conn.reply = "ok") =>
     LET complete == conn.parsed.name = "text" /\ conn.parsed.description = "text"
     IN /\ conn.result.success <=> complete
        /\ conn.result.success => (conn.result.name # "" /\ conn.result.description # "")
        /\ ~conn.result.success => conn.result.error = "AI response missing name or description"

\* ------------------------------------------------------------------------
\* The flow context
\* ------------------------------------------------------------------------
\* C15: whatever the nodes and the budget, the text serializeFlowContext returns,
\* notice included, is at most maxChars characters long.
C15_ContextWithinBudget ==
  util.fn = "serializeFlowContext" => util.out.length <= util.maxChars

C17_OpenAITokenField ==
  util.fn = "openai.addTokens" =>
    LET c == util.config
        limit == IF c.maxCompletionTokens # "" THEN c.maxCompletionTokens ELSE c.maxTokens
        value == IF limit = "100" THEN 100 ELSE 200
        m == c.model
        newStyle == /\ Len(m) >= 2 /\ m[1] = "gpt-"
                    /\ \/ m[2] = "5"
                       \/ Len(m) >= 3 /\ m[2] = "4" /\ m[3] \in {".1", "o"}
    IN IF limit = "" THEN util.out = util.body
       ELSE IF newStyle
       THEN util.out.max_completion_tokens = Some(value) /\ util.out.max_tokens = None
       ELSE util.out.max_tokens = Some(value) /\ util.out.max_completion_tokens = None

\* a limit written for gpt-4.1-mini
C17_Witness ==
  /\ util.fn = "openai.addTokens"
  /\ util.config.model = <<"gpt-", "4", ".1", "-mini">>
  /\ util.out.max_completion_tokens = Some(200)

\* C18: the Anthropic connector sets max_tokens to the first value configured among
\* the completion-token limit, the token limit and the caller's default, in this
\* order; the Google connector writes a configured limit (the completion limit, else
\* the token limit) to maxOutputTokens.
C18_AnthropicAndGoogleLimit ==
  LET c == util.config
      num(v) == IF v = "100" THEN 100 ELSE 200
  IN /\ util.fn = "anthropic.addTokens" =>
          util.out.max_tokens =
             (IF c.maxCompletionTokens # "" THEN Some(num(c.maxCompletionTokens))
              ELSE IF c.maxTokens # "" THEN Some(num(c.maxTokens))
              ELSE IF IsSome(util.fallbackMax) THEN util.fallbackMax
              ELSE util.body.max_tokens)
     /\ util.fn = "google.addTokens" =>
          util.out.maxOutputTokens =
             (IF c.maxCompletionTokens # "" THEN Some(num(c.maxCompletionTokens))
              ELSE IF c.maxTokens # "" THEN Some(num(c.maxTokens))
              ELSE util.body.maxOutputTokens)

\* both limits configured: the completion limit is the one written
C18_Witness ==
  /\ util.fn = "anthropic.addTokens"
  /\ util.config.maxCompletionTokens = "100" /\ util.config.maxTokens = "200"
  /\ util.out.max_tokens = Some(100)

\* ------------------------------------------------------------------------
\* The configuration
\* ------------------------------------------------------------------------
\* C19: validateConfig changes nothing; it answers valid = false with errors that
\* name every required field that is missing (apiKey, for Azure also endpoint and
\* deploymentName), and valid = true with no errors exactly when none is missing.
C19_ValidateConfigNamesAllMissing ==
  util.fn = "validateConfig" =>
    LET required == IF util.provider = "azure-openai"
                    THEN {"apiKey", "endpoint", "deploymentName"} ELSE {"apiKey"}
        missing == {f \in required : util.config[f] \in {"missing", "empty"}}
        named == UNION {{e.fields[i] : i \in 1..Len(e.fields)} :
                          e \in {util.out.errors[j] : j \in 1..Len(util.out.errors)}}
    IN /\ util.after = util.config
       /\ util.out.valid <=> missing = {}
       /\ util.out.valid => util.out.errors = <<>>
       /\ ~util.out.valid => (util.out.errors # <<>> /\ named = missing)

\* an Azure configuration without endpoint and without deployment name
C19_Witness ==
  /\ util.fn = "validateConfig" /\ util.provider = "azure-openai"
  /\ util.config = [endpoint |-> "missing", apiKey |-> "text", deploymentName |-> "empty"]
  /\ ~util.out.valid

\* C20: getEnv(key, fallback) returns the value the settings provide for the key
\* when there is one, otherwise the value of the environment variable, otherwise the
\* fallback; a settings value wins over an environment value.
C20_SettingsThenEnvironmentThenFallback ==
  util.fn = "getEnv" =>
    LET c == util.in IN
    util.out = (IF c.kind # "null" /\ c.top = "from-settings" THEN c.top
                ELSE IF c.kind # "null" /\ c.aiPrompts = "from-aiPrompts" THEN c.aiPrompts
                ELSE IF c.raw = "from-env" THEN c.raw
                ELSE c.fallback)

\* C21: in whatever order setSettings and getEnv are called, a lookup of K made while
\* settings with a prompt override for K are installed returns that override.
C21_PromptOverrideHonoured ==
  (util.fn = "getEnvNow" /\ util.key = "K" /\ IsSome(util.settings)) =>
     LET S == Get(util.settings)
     IN (S.aiPrompts # "missing" /\ S.top = "missing") => util.out = S.aiPrompts

\* C22: once a lookup for package p has returned a description, a later
\* /ai/custom-nodes request issues no registry lookup for p.
C22_CachedAfterLookup ==
  [][\A p \in packages.answered :
       [name |-> p, stage |-> "registry"] \notin (packages'.flights \ packages.flights)]_vars

\* C23: a fault caught by a handler is answered 500 with one generic message: the
\* error text of a 500 response is either the configuration message or the generic
\* text, never the text of the fault.
C23_GenericFaultMessage ==
  \A i \in DOMAIN responses :
     responses[i].status = 500 =>
        responses[i].body.error \in {"AI not configured", "Internal server error"}

\* a reply that is one JSON document inside a fence, with or without the json tag
IsFencedJson(c) ==
  /\ Len(c) >= 3 /\ c[1] = "fence" /\ c[Len(c)] = "fence"
  /\ LET first == IF c[2] = "json" THEN 3 ELSE 2
         body == TrimRange(c, first, Len(c) - 1)
     IN SubSeq(c, body.from, body.to) = <<"J">>

C25_NoEntryForRemovedNode ==
  \A n \in gone : ~IsSome(semanticNodeRegistry[n]) /\ ~IsSome(nodeFunctionalState[n])

\* the links a wires list asks for, whether or not the target exists
ProposedLinks(id, wires) ==
  {<<id, p - 1, t>> : <<p, t>> \in {pt \in (DOMAIN wires) \X NodeIds : pt[2] \in wires[pt[1]]}}

\* C27: after a merge, every proposed node that declares a wires list has exactly the
\* outgoing links of that list, and its stored wires are that list.
C27_WiresMatchProposal ==
  (last.kind = "merged" /\ Distinct(last.P)) =>
     \A n \in Ids(last.P) :
        LET e == Entry(last.P, n)
        IN IsSome(e.wires) =>
             /\ n \in DOMAIN nodes
             /\ nodes[n].wires = e.wires
             /\ {l \in links : l[1] = n} = ProposedLinks(n, Get(e.wires))

\* C26: within one merge the phases run in the order add, wire additions, update,
\* remove: an update is preceded by the import and by the wiring of every added node,
\* a removal by every update as well; and the merge ends with the graph the merge
\* as a whole yields.
C26_PhaseOrder ==
  util.fn = "merge" =>
     LET rank(v) == CASE v.phase = "add" -> 1 [] v.phase = "wire" -> 2
                      [] v.phase = "update" -> 3 [] OTHER -> 4
         d == util.done
         before(i, v) == \E j \in 1..(i - 1) : d[j] = v
         adds == NodesToAdd(util.P, ExistingNodes(util.g0, 1))
         upds == NodesToUpdate(util.P, ExistingNodes(util.g0, 1))
     IN /\ \A i, j \in DOMAIN d : i < j => rank(d[i]) <= rank(d[j])
        /\ \A i \in DOMAIN d :
             d[i].phase \in {"update", "remove"} =>
                \A k \in DOMAIN adds :
                   before(i, Visit("add", 0)) /\ before(i, Visit("wire", adds[k].id))
        /\ \A i \in DOMAIN d :
             d[i].phase = "remove" =>
                \A k \in DOMAIN upds : before(i, Visit("update", upds[k].id))
        /\ PhaseOf(util) = "end" => util.g = Merge(util.g0, 1, util.P).g

\* a merge that added and wired a node, updated another and is removing a third
C26_Witness ==
  /\ util.fn = "merge"
  /\ \E i, j, k, l \in DOMAIN util.done :
       /\ util.done[i].phase = "add" /\ util.done[j].phase = "wire"
       /\ util.done[k].phase = "update" /\ util.done[l].phase = "remove"

\* C28: the update of an existing node from its proposal keeps the node's identifier,
\* type and tab, changes x and y only where the proposal has the coordinate, leaves
\* its links and wires alone when the proposal has no wires list, copies the other
\* fields, and touches no other node.
C28_UpdateFrame ==
  [][PhaseOf(util) = "update" =>
       LET e == Head(util.upds)
           old == util.g.nodes[e.id]
           new == util'.g.nodes[e.id]
           out(g) == {l \in g.links : l[1] = e.id}
       IN /\ DOMAIN util'.g.nodes = DOMAIN util.g.nodes
          /\ new.type = old.type /\ new.z = old.z
          /\ new.x = (IF IsSome(e.x) THEN e.x ELSE old.x)
          /\ new.y = (IF IsSome(e.y) THEN e.y ELSE old.y)
          /\ ~IsSome(e.wires) => out(util'.g) = out(util.g) /\ new.wires = old.wires
          /\ new.name = e.name
          /\ \A n \in DOMAIN util.g.nodes \ {e.id} : util'.g.nodes[n] = util.g.nodes[n]]_vars

\* an existing node has been updated from a proposal that has x and no y: it has the
\* proposed x, its own y and its own type
C28_Witness ==
  /\ util.fn = "merge"
  /\ \E i \in DOMAIN util.done :
       /\ util.done[i].phase = "update"
       /\ LET e == Entry(util.P, util.done[i].id)
              n == util.g.nodes[util.done[i].id]
          IN /\ IsSome(e.x) /\ ~IsSome(e.y)
             /\ n.x = e.x /\ n.y = Some("p0") /\ n.type = "function" /\ n.name = "ai"

\* C29: while a resync waits after a 429 its node shows 'waiting'; while an attempt
\* of a resync is in progress, and no resync of the node is in a wait, the node does
\* not show 'waiting'; and the end of a wait sets the node back to 'syncing' before
\* the request is retried. (The status
\* is the colour of the node's element: the nodes meant are those in the page.)
C29_WaitingDuringWait ==
  /\ [](\A op \in Running429 :
          op.node \in rendered =>
             /\ op.pc = "wait" => status[op.node] = "waiting"
             /\ (op.pc = "call" /\ \A o \in Running429 : o.node = op.node => o.pc # "wait")
                  => status[op.node] # "waiting")
  /\ [][\A op \in Running429 :
          (TimerFires(op) /\ op.node \in rendered) => status'[op.node] = "syncing"]_vars

\* C30: a failure of the request that is no 429 ends the call at once, however many
\* rate-limit retries came before: the call is gone, with no wait and no further
\* attempt, the node does not turn 'waiting', and no answer of the server is used up.
C30_OtherFailureRethrown ==
  [][\A op \in Running429 :
       ReplyError(op) =>
          /\ CopiesIn(op, ops') = CopiesIn(op, ops) - 1
          /\ BagCardinality(ops') = BagCardinality(ops) - 1
          /\ \A o \in BagToSet(ops') : CopiesIn(o, ops') <= CopiesIn(o, ops)
          /\ op.node \in rendered => status'[op.node] = "idle"
          /\ budget' = budget]_vars

\* a resync that ended after three rate-limit retries: no call is left, nothing was
\* applied and the node is idle, as after a failure that is no 429
C30_Witness ==
  /\ httpClient /\ left = 0 /\ ops = EmptyBag
  /\ budget = MaxAttempts + 1 - 3
  /\ node = [n \in SyncNodes |-> FreshNode]
  /\ \A n \in SyncNodes : status[n] = "idle"

C32_DisabledWhileInFlight ==
  req.st = "inflight" => btnDisabled

\* C33: the context of a build-flow request is the set of the nodes on the tab that
\* is active at submit time (no tab is among them), and it is sent unless it is
\* empty or the prompt goes the way of a new tab.
C33_ContextIsActiveTab ==
  [][(req.st = "none" /\ req'.st = "inflight") =>
       /\ req'.tab = activeTab
       /\ req'.ctx = {n \in DOMAIN nodes : nodes[n].z = activeTab}
       /\ req'.sent <=> (req'.ctx # {} /\ ~req'.create)]_vars

\* a request whose context was sent, from an editor with a node on another tab too
C33_Witness ==
  /\ req.st = "inflight" /\ req.sent
  /\ \E n \in DOMAIN nodes : nodes[n].z # req.tab

\* C34: a merge whose request was sent from another tab than the one active at the
\* response leaves the nodes of the newly active tab in the graph, as they were.
C34_SwitchedTabUntouched ==
  (last.kind = "merged" /\ last.req.tab # last.tab) =>
     \A n \in last.preIds : n \in DOMAIN nodes /\ nodes[n] = UserNode(last.tab)

\* the sync state after the step
SyncStateAfter ==
  [node |-> node', status |-> status', reg |-> semanticNodeRegistry', fs |-> nodeFunctionalState',
   ops |-> ops', left |-> left', shown |-> rendered', httpClient |-> httpClient', over |-> FALSE]

\* C35: a resync of node n that succeeds starts no further resync: the completion
\* itself issues no request, the stored fingerprint then matches the node, so that a
\* nodes:change event for n issues none either, and this stays so until the user
\* edits the logic of n.
C35_SuccessStartsNoSync ==
  [][/\ \A op \in Running429 :
          \A d \in (IF op.dir = "info-to-logic" THEN ResyncReplies ELSE DescReplies) :
             (/\ ReplyData(op, d)
              /\ (IF op.dir = "info-to-logic" THEN ApplyResync(SyncState, op.node, d).ok
                   ELSE ApplyDescription(SyncState, op.node, d).ok))
             => /\ BagCardinality(ops') = BagCardinality(ops) - 1
                /\ ~FunctionalPropertiesChanged(SyncStateAfter, op.node)
                /\ OnNodesChange(SyncStateAfter, op.node).ops = ops'
     /\ \A n \in SyncNodes :
          (/\ ~FunctionalPropertiesChanged(SyncState, n)
           /\ ~\E c \in Cfgs : UserEditLogic(n, c))
          => ~FunctionalPropertiesChanged(SyncStateAfter, n)]_vars

\* a resync has written the provider's text into a node of the page, and the
\* registries agree with the node
C35_Witness ==
  \E n \in rendered :
     /\ node[n].info = "t2" /\ semanticNodeRegistry[n] = Some("t2")
     /\ nodeFunctionalState[n] = Some(node[n].cfg)
     /\ \A op \in Running429 : op.node # n

\* C36: a resync that fails, by an answer without success, by a failure that is no
\* 429 or by running out of attempts, leaves the nodes, the last-synced texts and the
\* stored fingerprints as they were; so do its rate-limit answers and its waits.
C36_FailureChangesNothing ==
  [][\A op \in Running429 :
       (\/ ReplyError(op)
        \/ SettleExhausted(op)
        \/ TimerFires(op)
        \/ \E h \in Hints : Reply429(op, h)
        \/ \E d \in (IF op.dir = "info-to-logic" THEN ResyncReplies ELSE DescReplies) :
              /\ ReplyData(op, d)
              /\ ~(IF op.dir = "info-to-logic" THEN ApplyResync(SyncState, op.node, d).ok
                    ELSE ApplyDescription(SyncState, op.node, d).ok))
       => UNCHANGED <<node, semanticNodeRegistry, nodeFunctionalState>>]_vars

\* the resync of a logic edit has ended without success: the edit is in the node and
\* the stored fingerprint is the one from before it
C36_Witness ==
  /\ httpClient /\ left = 0 /\ ops = EmptyBag
  /\ \E n \in rendered :
       /\ node[n].cfg = "f1" /\ nodeFunctionalState[n] = Some("f0")
       /\ node[n].info = "" /\ semanticNodeRegistry[n] = None

\* C37: a successful build-flow response without nodes changes nothing in the graph:
\* no node, no link and no tab is added, changed or removed and the active tab stays,
\* whether the request was to create a flow or to change the current one.
C37_EmptyFlowChangesNothing ==
  [][(req.st = "inflight" /\ req'.st = "done" /\ last'.kind # "failed" /\ last'.P = <<>>)
       => UNCHANGED <<nodes, links, tabs, activeTab>>]_vars

\* an empty flow has answered a request to change a tab that holds nodes
C37_Witness ==
  /\ last.kind = "empty" /\ ~last.req.create
  /\ last.preIds # {}
  /\ \A n \in last.preIds : n \in DOMAIN nodes

\* the links leaving node n in graph g
OutLinks(g, n) == {l \in g.links : l[1] = n}

\* C38: a merge changes only the target tab: when it is over, every node of another
\* tab is in the graph with the fields and the outgoing links it had before.
C38_OtherTabsUntouched ==
  (util.fn \in {"merge", "thrown"} /\ PhaseOf(util) \in {"end", "none"}) =>
     \A n \in DOMAIN util.g0.nodes :
        util.g0.nodes[n].z # 1 =>
          /\ n \in DOMAIN util.g.nodes
          /\ util.g.nodes[n] = util.g0.nodes[n]
          /\ OutLinks(util.g, n) = OutLinks(util.g0, n)

\* C39: an info-to-logic resync leaves the identifier, the type and the tab of the
\* node as they were, whatever the answer holds, and afterwards the last-synced text
\* and the fingerprint of the node are the entries under its original identifier,
\* no entry having appeared under another one.
C39_IdentityKept ==
  util.fn = "resynced-keys" =>
     /\ util.node.id = util.before.id
     /\ util.node.type = util.before.type
     /\ util.node.z = util.before.z
     /\ util.reg[util.before.id] = Some(util.node.info)
     /\ util.fs[util.before.id] = Some(ExtractFunctionalProperties(util.node))
     /\ \A i \in DOMAIN util.reg : i # util.before.id => util.reg[i] = None /\ util.fs[i] = None

====
